---- MODULE Spec2Model ----
(***************************************************************************)
(* Job-offer extraction pipeline of the JobMatch browser extension:        *)
(* the extractor registry (extractJobOffer), the page classifier           *)
(* (isJobPage), the site and generic extractors and the text heuristics    *)
(* they share.                                                             *)
(*                                                                         *)
(* A JavaScript string is a sequence of one-character strings, so that     *)
(* includes, toLowerCase, trim and the regular expressions of the source   *)
(* are computed character by character.  A character outside ASCII is      *)
(* written by its code point, "&#233;" for e-acute; the backtick is        *)
(* written "&grave;".                                                      *)
(***************************************************************************)
EXTENDS Integers, Sequences, FiniteSets, TLC

VARIABLES
  url,      \* the url argument of extractJobOffer / isJobPage
  doc,      \* the document (markup tree) argument
  now,      \* the wall clock read by new Date(), in hours
  pc,       \* position of the current call: "idle", "loop", "await", "done"
  idx,      \* index in extractors of the extractor the loop is at
  pending,  \* what the awaited extractor.extract call yields
  calls,    \* the extract calls made by the current run, in order
  ret,      \* what the last completed call returned
  prevRet,  \* what the run before it returned
  run,      \* number of runs of extractJobOffer started
  fnIn,     \* argument of the pure function under test
  fnOut,    \* its result
  registry, \* the extractors array of the running module: name, domains and priority of each
  store,    \* chrome.storage.local: the values under the keys authTokens, user and capturedOffers
  refreshPromise, \* ApiClient.refreshPromise
  isExtracting,   \* the flag of the content script
  requests  \* the requests and messages sent so far, in order
vars == <<url, doc, now, pc, idx, pending, calls, ret, prevRet, run, fnIn, fnOut, registry, store, refreshPromise, isExtracting, requests>>

\* null, and the state of the extension before anything has run: an empty storage area, no
\* refresh promise, no extraction under way, nothing sent
Null == [null |-> TRUE]
EmptyStore == [authTokens |-> Null, user |-> Null, capturedOffers |-> <<>>]
IdleExtension ==
  store = EmptyStore /\ refreshPromise = Null /\ isExtracting = FALSE /\ requests = <<>>

(***************************************************************************)
(* Strings                                                                 *)
(***************************************************************************)
UpperChars == <<"A","B","C","D","E","F","G","H","I","J","K","L","M","N","O","P","Q","R","S","T","U","V","W","X","Y","Z","&#201;","&#192;">>
LowerChars == <<"a","b","c","d","e","f","g","h","i","j","k","l","m","n","o","p","q","r","s","t","u","v","w","x","y","z","&#233;","&#224;">>
UpperSet == {UpperChars[i] : i \in 1..Len(UpperChars)}
LowerOf == [c \in UpperSet |-> LowerChars[CHOOSE i \in 1..Len(UpperChars) : UpperChars[i] = c]]

\* String.prototype.toLowerCase
toLowerCase(s) == [i \in 1..Len(s) |-> IF s[i] \in UpperSet THEN LowerOf[s[i]] ELSE s[i]]

\* String.prototype.includes
includes(s, t) == \E i \in 1..(Len(s) - Len(t) + 1) : \A j \in 1..Len(t) : s[i + j - 1] = t[j]

\* String.prototype.startsWith
startsWith(s, t) == Len(t) <= Len(s) /\ \A j \in 1..Len(t) : s[j] = t[j]

\* the characters matched by \s
WhiteSpace == {" ", "\n", "\t", "\r"}
Digits == {"0", "1", "2", "3", "4", "5", "6", "7", "8", "9"}

\* the characters of s at the positions satisfying keep, in order
Filter(s, keep(_)) == LET ix == SelectSeq([i \in 1..Len(s) |-> i], keep) IN [k \in 1..Len(ix) |-> s[ix[k]]]

\* String.prototype.trim
trim(s) ==
  LET solid == {i \in 1..Len(s) : s[i] \notin WhiteSpace} IN
  IF solid = {} THEN <<>>
  ELSE LET first == CHOOSE i \in solid : \A j \in solid : i <= j
           last == CHOOSE i \in solid : \A j \in solid : j <= i
       IN SubSeq(s, first, last)

\* String.prototype.trimEnd
trimEnd(s) ==
  LET solid == {i \in 1..Len(s) : s[i] \notin WhiteSpace} IN
  IF solid = {} THEN <<>>
  ELSE SubSeq(s, 1, CHOOSE i \in solid : \A j \in solid : j <= i)

\* the value of an absent string (undefined / null); a string s is truthy iff Truthy(s)
Undefined == <<"undefined">>
Truthy(s) == s # Undefined /\ s # <<>>

\* a ?? b
Nullish(a, b) == IF a = Undefined THEN b ELSE a

NL == <<"\n">>

\* the concatenation of the strings ss[lo..hi]
RECURSIVE ConcatRange(_, _, _)
ConcatRange(ss, lo, hi) ==
  IF lo > hi THEN <<>>
  ELSE IF lo = hi THEN ss[lo]
  ELSE LET mid == (lo + hi) \div 2 IN ConcatRange(ss, lo, mid) \o ConcatRange(ss, mid + 1, hi)

\* Array.prototype.join('')
Concat(ss) == ConcatRange(ss, 1, Len(ss))

\* Array.prototype.join(sep)
join(ss, sep) == Concat([k \in 1..Len(ss) |-> IF k = 1 THEN ss[k] ELSE sep \o ss[k]])

\* String.prototype.split('\n')
splitLines(s) ==
  LET nl == SelectSeq([i \in 1..Len(s) |-> i], LAMBDA i : s[i] = "\n") IN
  [k \in 1..(Len(nl) + 1) |->
     SubSeq(s, IF k = 1 THEN 1 ELSE nl[k - 1] + 1, IF k = Len(nl) + 1 THEN Len(s) ELSE nl[k] - 1)]

\* the decimal digits of a number below 1000000, as template literals print it
DigitChars == <<"0", "1", "2", "3", "4", "5", "6", "7", "8", "9">>
RECURSIVE NumberToString(_)
NumberToString(n) == IF n < 10 THEN <<DigitChars[n + 1]>> ELSE NumberToString(n \div 10) \o <<DigitChars[(n % 10) + 1]>>

(***************************************************************************)
(* HTML to Markdown (lib/html-to-markdown.ts)                              *)
(*                                                                         *)
(* A markup node is a text leaf, a comment or an element with its tag,     *)
(* its href attribute and its child nodes.  An HTML string is held as the  *)
(* sequence of nodes DOMParser makes of it.                                *)
(***************************************************************************)
TextNode(s) == [tag |-> "#text", text |-> s, href |-> Undefined, kids |-> <<>>]
Element(tag, kids) == [tag |-> tag, text |-> <<>>, href |-> Undefined, kids |-> kids]
AnchorElement(href, kids) == [tag |-> "a", text |-> <<>>, href |-> href, kids |-> kids]

\* Node.textContent: the text leaves below the node, in document order
RECURSIVE textContent(_)
textContent(node) ==
  IF node.tag = "#text" THEN node.text
  ELSE IF node.tag = "#comment" THEN <<>>
  ELSE Concat([i \in 1..Len(node.kids) |-> textContent(node.kids[i])])

\* Element.querySelectorAll(tags) of the renderer: the descendants with one of the tags, in document order
RECURSIVE descendants(_, _)
descendants(node, tags) ==
  Concat([i \in 1..Len(node.kids) |->
            (IF node.kids[i].tag \in tags THEN <<node.kids[i]>> ELSE <<>>) \o descendants(node.kids[i], tags)])

\* a renderer that gives every heading tag a single '#'
flatHeadingLevel(tag) == IF tag \in {"h1", "h2", "h3", "h4", "h5", "h6"} THEN 1 ELSE 0

HeadingLevel(tag) ==
  CASE tag = "h1" -> 1 [] tag = "h2" -> 2 [] tag = "h3" -> 3
    [] tag = "h4" -> 4 [] tag = "h5" -> 5 [] tag = "h6" -> 6 [] OTHER -> 0

RECURSIVE processNode(_), processListItems(_, _), processTable(_)

\* processNode: children first, then the wrapper of the tag
processNode(node) ==
  IF node.tag = "#text" THEN node.text
  ELSE IF node.tag = "#comment" THEN <<>>
  ELSE
    LET children == Concat([i \in 1..Len(node.kids) |-> processNode(node.kids[i])])
        t == node.tag
    IN
    CASE HeadingLevel(t) > 0 ->
           NL \o [i \in 1..HeadingLevel(t) |-> "#"] \o <<" ">> \o trim(children) \o NL \o NL
      [] t \in {"strong", "b"} -> <<"*","*">> \o trim(children) \o <<"*","*">>
      [] t \in {"em", "i"} -> <<"*">> \o trim(children) \o <<"*">>
      [] t = "u" -> <<"_">> \o trim(children) \o <<"_">>
      [] t \in {"s", "strike", "del"} -> <<"~","~">> \o trim(children) \o <<"~","~">>
      [] t = "code" -> <<"&grave;">> \o trim(children) \o <<"&grave;">>
      [] t = "a" ->
           IF Truthy(node.href) /\ ~startsWith(node.href, <<"j","a","v","a","s","c","r","i","p","t",":">>)
             THEN <<"[">> \o trim(children) \o <<"]","(">> \o node.href \o <<")">>
             ELSE children
      [] t = "ul" -> NL \o processListItems(node, "ul") \o NL
      [] t = "ol" -> NL \o processListItems(node, "ol") \o NL
      [] t = "li" -> children
      [] t = "p" -> NL \o trim(children) \o NL \o NL
      [] t = "br" -> NL
      [] t = "hr" -> <<"\n","-","-","-","\n","\n">>
      [] t \in {"div", "section", "article"} -> NL \o children \o NL
      [] t = "blockquote" -> <<"\n",">"," ">> \o join(splitLines(trim(children)), <<"\n",">"," ">>) \o NL \o NL
      [] t = "pre" -> <<"\n","&grave;","&grave;","&grave;","\n">> \o trim(children) \o <<"\n","&grave;","&grave;","&grave;","\n","\n">>
      [] t = "table" -> NL \o processTable(node) \o NL
      [] t \in {"tr", "td", "th", "thead", "tbody"} -> children
      [] t \in {"script", "style", "noscript", "iframe", "svg", "canvas"} -> <<>>
      [] OTHER -> children

\* processListItems: the direct li children, one line each, continuation lines indented
processListItems(listElement, listType) ==
  LET items == SelectSeq(listElement.kids, LAMBDA k : k.tag = "li")
      line(index) ==
        LET prefix == IF listType = "ul" THEN <<"-">> ELSE NumberToString(index) \o <<".">>
            content == trim(processNode(items[index]))
            lines == splitLines(content)
            firstLine == lines[1]
            rest == join([k \in 1..(Len(lines) - 1) |-> <<" "," ">> \o lines[k + 1]], NL)
        IN prefix \o <<" ">> \o firstLine \o (IF rest # <<>> THEN NL \o rest ELSE <<>>)
  IN join([index \in 1..Len(items) |-> line(index)], NL)

\* processTable: one pipe-delimited line per tr, a dashed line after the first
processTable(tableElement) ==
  LET rows == descendants(tableElement, {"tr"})
      escapePipes(s) == Concat([i \in 1..Len(s) |-> IF s[i] = "|" THEN <<"\\", "|">> ELSE <<s[i]>>])
      rowLine(r) ==
        LET cells == descendants(rows[r], {"td", "th"})
            cellContents == [c \in 1..Len(cells) |-> escapePipes(trim(processNode(cells[c])))]
            body == <<"|"," ">> \o join(cellContents, <<" ","|"," ">>) \o <<" ","|">>
            separator == <<"|"," ">> \o join([c \in 1..Len(cells) |-> <<"-","-","-">>], <<" ","|"," ">>) \o <<" ","|">>
        IN IF r = 1 THEN body \o NL \o separator ELSE body
  IN IF Len(rows) = 0 THEN <<>> ELSE join([r \in 1..Len(rows) |-> rowLine(r)], NL)

\* .replace(/\n{3,}/g, '\n\n')
collapseNewlines(s) ==
  Filter(s, LAMBDA i : ~(i >= 3 /\ s[i] = "\n" /\ s[i - 1] = "\n" /\ s[i - 2] = "\n"))

\* .split('\n').map(line => line.trimEnd()).join('\n')
trimLineEnds(s) ==
  Filter(s, LAMBDA i :
    \/ s[i] = "\n"
    \/ s[i] \notin WhiteSpace
    \/ \E j \in (i + 1)..Len(s) : s[j] \notin WhiteSpace /\ \A k \in (i + 1)..(j - 1) : s[k] # "\n")

\* .replace(/XX\s+/g, 'XX') for a marker XX of one character c repeated n times
dropSpaceAfter(s, c, n) ==
  Filter(s, LAMBDA i :
    ~(/\ s[i] \in WhiteSpace
      /\ \E p \in (n + 1)..i :
           /\ \A k \in p..i : s[k] \in WhiteSpace
           /\ \A k \in 1..n : s[p - k] = c))

\* .replace(/\s+XX/g, 'XX')
dropSpaceBefore(s, c, n) ==
  Filter(s, LAMBDA i :
    ~(/\ s[i] \in WhiteSpace
      /\ \E q \in i..(Len(s) - n) :
           /\ \A k \in i..q : s[k] \in WhiteSpace
           /\ \A k \in 1..n : s[q + k] = c))

\* .replace(/\*\*\*\*/g, ''): of a run of k asterisks the first 4 * (k div 4) go
dropEmptyBold(s) ==
  Filter(s, LAMBDA i :
    ~(/\ s[i] = "*"
      /\ LET a == CHOOSE p \in 1..i : (\A k \in p..i : s[k] = "*") /\ (p = 1 \/ s[p - 1] # "*")
             b == CHOOSE q \in i..Len(s) : (\A k \in i..q : s[k] = "*") /\ (q = Len(s) \/ s[q + 1] # "*")
         IN (i - a + 1) <= 4 * ((b - a + 1) \div 4)))

\* the bullet glyphs of the normalisation pass, by code point (U+2022, U+25CF, U+25CB, U+25AA, U+25B8, U+25BA)
BulletGlyphs == {"&#8226;", "&#9679;", "&#9675;", "&#9642;", "&#9656;", "&#9658;"}

\* first position of the white-space run that ends just before position g
runStart(s, g) == CHOOSE p \in 1..g : (\A k \in p..(g - 1) : s[k] \in WhiteSpace) /\ (p = 1 \/ s[p - 1] \notin WhiteSpace)

\* where the match of .replace(/^[\s]*[bullet glyph]\s*/gm, '- ') that replaces the glyph at g starts; 0 when none does
RECURSIVE bulletMatchStart(_, _)
bulletMatchStart(s, g) ==
  LET L == runStart(s, g)
      afterMatch == L >= 2 /\ s[L - 1] \in BulletGlyphs /\ bulletMatchStart(s, L - 1) # 0
      lineStarts == {p \in L..g : p = 1 \/ s[p - 1] = "\n"}
  IN IF afterMatch THEN (IF g \in lineStarts THEN g ELSE 0)
     ELSE IF lineStarts = {} THEN 0
     ELSE CHOOSE p \in lineStarts : \A q \in lineStarts : p <= q

normalizeBullets(s) ==
  LET n == Len(s)
      matched(g) == s[g] \in BulletGlyphs /\ bulletMatchStart(s, g) # 0
      leading(i) == \E g \in (i + 1)..n :
                      /\ \A k \in i..(g - 1) : s[k] \in WhiteSpace
                      /\ matched(g) /\ bulletMatchStart(s, g) <= i
      trailing(i) == LET L == runStart(s, i) IN L >= 2 /\ matched(L - 1)
      piece(i) == IF matched(i) THEN <<"-"," ">>
                  ELSE IF s[i] \in WhiteSpace /\ (trailing(i) \/ leading(i)) THEN <<>>
                  ELSE <<s[i]>>
  IN IF \E i \in 1..n : s[i] \in BulletGlyphs THEN Concat([i \in 1..n |-> piece(i)]) ELSE s

\* .replace(/\n- \n/g, '\n'): matches are taken left to right and do not overlap
dropEmptyItems(s) ==
  LET n == Len(s)
      cand(p) == p >= 1 /\ p + 3 <= n /\ s[p] = "\n" /\ s[p + 1] = "-" /\ s[p + 2] = " " /\ s[p + 3] = "\n"
      chainLen(p) == CHOOSE c \in 0..n : (\A k \in 0..c : cand(p - 3 * k)) /\ ~cand(p - 3 * (c + 1))
      match(p) == cand(p) /\ chainLen(p) % 2 = 0
  IN Filter(s, LAMBDA i : ~(match(i - 1) \/ match(i - 2) \/ match(i - 3)))

\* cleanMarkdown: the cleanup passes, in the order of the source
cleanMarkdown(markdown) ==
  LET s1 == collapseNewlines(markdown)
      s2 == trimLineEnds(s1)
      s3 == trim(s2)
      s4 == dropSpaceAfter(s3, "*", 2)
      s5 == dropSpaceBefore(s4, "*", 2)
      s6 == dropSpaceAfter(s5, "*", 1)
      s7 == dropSpaceBefore(s6, "*", 1)
      s8 == dropEmptyBold(s7)
      s9 == normalizeBullets(s8)
  IN dropEmptyItems(s9)

\* a renderer that numbers its outputs with a counter kept between calls
htmlToMarkdownNumbered(html) ==
  cleanMarkdown(processNode(Element("body", html))) \o NumberToString(Len(calls))

\* htmlToMarkdown: html is the node sequence of the parsed string; the empty string gives ''
htmlToMarkdown(html) ==
  IF html = <<>> THEN <<>>
  ELSE cleanMarkdown(processNode(Element("body", html)))

(***************************************************************************)
(* Text heuristics (extractors/base.ts)                                    *)
(***************************************************************************)
\* cleanText: runs of white space become one space, then trim; '' for an absent text
cleanText(text) ==
  IF ~Truthy(text) THEN <<>>
  ELSE trim(Filter([i \in 1..Len(text) |-> IF text[i] \in WhiteSpace THEN " " ELSE text[i]],
                   LAMBDA i : ~(text[i] \in WhiteSpace /\ i > 1 /\ text[i - 1] \in WhiteSpace)))

\* new URL(url): the scheme the url starts with, <<>> when the string does not parse
urlScheme(u) ==
  IF startsWith(u, <<"h","t","t","p","s",":","/","/">>) THEN <<"h","t","t","p","s",":","/","/">>
  ELSE IF startsWith(u, <<"h","t","t","p",":","/","/">>) THEN <<"h","t","t","p",":","/","/">>
  ELSE <<>>

\* new URL(url).hostname: the lower-cased characters between the scheme and the first of / ? # :
hostname(u) ==
  LET from == Len(urlScheme(u)) + 1
      stops == {i \in from..Len(u) : u[i] \in {"/", "?", "#", ":"}}
      to == IF stops = {} THEN Len(u) ELSE (CHOOSE i \in stops : \A j \in stops : i <= j) - 1
  IN toLowerCase(SubSeq(u, from, to))

\* getDomain: the hostname without a leading "www.", '' when new URL throws
getDomain(u) ==
  IF urlScheme(u) = <<>> \/ hostname(u) = <<>> THEN <<>>
  ELSE IF startsWith(hostname(u), <<"w","w","w",".">>) THEN SubSeq(hostname(u), 5, Len(hostname(u)))
  ELSE hostname(u)

\* createEmptyResult
NoOffer == [absent |-> TRUE]
createEmptyResult(extractorName) ==
  [success |-> FALSE, offer |-> NoOffer, confidence |-> 0, extractorUsed |-> extractorName,
   errors |-> <<<<"A","u","c","u","n","e"," ","d","o","n","n","&#233;","e"," ","e","x","t","r","a","i","t","e">>>>]

\* createSuccessResult; confidence is held in hundredths
createSuccessResult(extractorName, offer, confidence) ==
  [success |-> TRUE, offer |-> offer, confidence |-> confidence, extractorUsed |-> extractorName,
   errors |-> <<>>]

\* parseInt(digits, 10)
RECURSIVE parseInt(_)
parseInt(ds) ==
  IF ds = <<>> THEN 0
  ELSE 10 * parseInt(SubSeq(ds, 1, Len(ds) - 1))
       + (CHOOSE v \in 0..9 : DigitChars[v + 1] = ds[Len(ds)])

\* last position of the run of digits that starts at a
digitsEnd(s, a) == CHOOSE e \in a..Len(s) : (\A k \in a..e : s[k] \in Digits) /\ (e = Len(s) \/ s[e + 1] \notin Digits)

NoSalary == [absent |-> TRUE]
SalarySeparators == {"-", "&#8211;", "&#224;"}
CurrencySymbols == {"&#8364;", "$", "&#163;"}

\* the period named in a normalized salary text; a later rule overrides an earlier one
salaryPeriod(normalized) ==
  IF includes(normalized, <<"/","m">>) \/ includes(normalized, <<"m","o","i","s">>) THEN "month"
  ELSE IF includes(normalized, <<"/","j">>) \/ includes(normalized, <<"j","o","u","r">>) THEN "day"
  ELSE IF includes(normalized, <<"/","h">>) \/ includes(normalized, <<"h","e","u","r","e">>) THEN "hour"
  ELSE "year"

\* parseSalary
parseSalary(text) ==
  IF ~Truthy(text) THEN NoSalary
  ELSE
    LET lower == toLowerCase(text)
        normalized == Filter(lower, LAMBDA i : lower[i] \notin WhiteSpace)
        n == Len(normalized)
        isStart(a) == normalized[a] \in Digits /\ (a = 1 \/ normalized[a - 1] \notin Digits)
        afterK(a) == LET e == digitsEnd(normalized, a)
                     IN IF e < n /\ normalized[e + 1] = "k" THEN e + 2 ELSE e + 1
        \* /(\d+)k?[-–à](\d+)k?/ matched from the start a of a run of digits
        rangeAt(a) == isStart(a) /\ afterK(a) < n /\ normalized[afterK(a)] \in SalarySeparators
                        /\ normalized[afterK(a) + 1] \in Digits
        rangeStarts == {a \in 1..n : rangeAt(a)}
        \* /(\d+)k?[€$£]/
        singleAt(a) == isStart(a) /\ afterK(a) <= n /\ normalized[afterK(a)] \in CurrencySymbols
        singleStarts == {a \in 1..n : singleAt(a)}
        hasK == includes(normalized, <<"k">>)
        kilo(v) == IF v < 1000 /\ hasK THEN v * 1000 ELSE v
        currency == IF includes(normalized, <<"c","h","f">>) THEN <<"C","H","F">>
                    ELSE IF includes(normalized, <<"&#163;">>) THEN <<"G","B","P">>
                    ELSE IF includes(normalized, <<"$">>) THEN <<"U","S","D">>
                    ELSE <<"E","U","R">>
    IN
    IF rangeStarts # {} THEN
      LET a == CHOOSE x \in rangeStarts : \A y \in rangeStarts : x <= y
          b == afterK(a) + 1
      IN [min |-> kilo(parseInt(SubSeq(normalized, a, digitsEnd(normalized, a)))),
          max |-> kilo(parseInt(SubSeq(normalized, b, digitsEnd(normalized, b)))),
          currency |-> currency,
          period |-> salaryPeriod(normalized)]
    ELSE IF singleStarts # {} THEN
      LET a == CHOOSE x \in singleStarts : \A y \in singleStarts : x <= y
          value == kilo(parseInt(SubSeq(normalized, a, digitsEnd(normalized, a))))
      IN [min |-> value, max |-> value,
          currency |-> IF includes(normalized, <<"&#163;">>) THEN <<"G","B","P">>
                       ELSE IF includes(normalized, <<"$">>) THEN <<"U","S","D">>
                       ELSE <<"E","U","R">>,
          period |-> "year"]
    ELSE NoSalary

\* detectRemoteType: the first rule that matches the lower-cased text wins
detectRemoteType(text) ==
  LET lower == toLowerCase(text) IN
  IF includes(lower, <<"f","u","l","l"," ","r","e","m","o","t","e">>) \/ includes(lower, <<"1","0","0","%"," ","r","e","m","o","t","e">>) \/ includes(lower, <<"t","&#233;","l","&#233;","t","r","a","v","a","i","l"," ","c","o","m","p","l","e","t">>)
    THEN "remote"
  ELSE IF includes(lower, <<"h","y","b","r","i","d">>) \/ includes(lower, <<"h","y","b","r","i","d","e">>) \/ includes(lower, <<"t","&#233;","l","&#233;","t","r","a","v","a","i","l"," ","p","a","r","t","i","e","l">>)
    THEN "hybrid"
  ELSE IF includes(lower, <<"o","n","-","s","i","t","e">>) \/ includes(lower, <<"s","u","r"," ","s","i","t","e">>) \/ includes(lower, <<"p","r","&#233;","s","e","n","t","i","e","l">>)
    THEN "onsite"
  ELSE "unknown"

knownSkills ==
  << <<"J","a","v","a","S","c","r","i","p","t">>, <<"T","y","p","e","S","c","r","i","p","t">>, <<"P","y","t","h","o","n">>, <<"J","a","v","a">>, <<"C","#">>, <<"C","+","+">>, <<"G","o">>, <<"R","u","s","t">>, <<"R","u","b","y">>, <<"P","H","P">>,
     <<"R","e","a","c","t">>, <<"V","u","e">>, <<"A","n","g","u","l","a","r">>, <<"S","v","e","l","t","e">>, <<"N","o","d","e",".","j","s">>, <<"E","x","p","r","e","s","s">>, <<"N","e","s","t","J","S">>, <<"D","j","a","n","g","o">>, <<"F","a","s","t","A","P","I">>, <<"F","l","a","s","k">>,
     <<"P","o","s","t","g","r","e","S","Q","L">>, <<"M","y","S","Q","L">>, <<"M","o","n","g","o","D","B">>, <<"R","e","d","i","s">>, <<"E","l","a","s","t","i","c","s","e","a","r","c","h">>,
     <<"A","W","S">>, <<"G","C","P">>, <<"A","z","u","r","e">>, <<"D","o","c","k","e","r">>, <<"K","u","b","e","r","n","e","t","e","s">>, <<"T","e","r","r","a","f","o","r","m">>,
     <<"G","i","t">>, <<"C","I","/","C","D">>, <<"A","g","i","l","e">>, <<"S","c","r","u","m">>,
     <<"M","a","c","h","i","n","e"," ","L","e","a","r","n","i","n","g">>, <<"D","e","e","p"," ","L","e","a","r","n","i","n","g">>, <<"T","e","n","s","o","r","F","l","o","w">>, <<"P","y","T","o","r","c","h">>,
     <<"R","E","S","T">>, <<"G","r","a","p","h","Q","L">>, <<"g","R","P","C">> >>

\* extractSkillsFromText: the known skills the lower-cased text contains, in vocabulary order
extractSkillsFromText(text) ==
  LET lowerText == toLowerCase(text)
  IN SelectSeq(knownSkills, LAMBDA skill : includes(lowerText, toLowerCase(skill)))

(***************************************************************************)
(* The document.  An element of the page carries the set of selectors of   *)
(* the extractors it matches (CSS matching is the browser's) and its child *)
(* nodes; doc.elems lists the elements in document order.                  *)
(***************************************************************************)
\* Document.querySelectorAll
querySelectorAll(d, selector) == SelectSeq(d.elems, LAMBDA e : selector \in e.sel)

\* Element.textContent / Element.innerHTML of a page element
elementText(e) == Concat([i \in 1..Len(e.kids) |-> textContent(e.kids[i])])
innerHTML(e) == e.kids

\* the first result of a cascade that is not Undefined (the early return of the selector loops)
firstDefined(results) ==
  LET hits == {k \in 1..Len(results) : results[k] # Undefined}
  IN IF hits = {} THEN Undefined ELSE results[CHOOSE k \in hits : \A h \in hits : k <= h]

acceptedText(text, ok) == IF text # <<>> /\ ok THEN text ELSE Undefined

\* the selector cascade shared by the extractors: for each selector in turn, the cleaned text of the
\* first matching element when that text is non-empty and accepted; Undefined when no selector yields one
selectorCascade(d, selectors, accept(_)) ==
  LET found(m) ==
        IF m = <<>> \/ elementText(m[1]) = <<>> THEN Undefined
        ELSE acceptedText(cleanText(elementText(m[1])), accept(cleanText(elementText(m[1]))))
  IN firstDefined([k \in 1..Len(selectors) |-> found(querySelectorAll(d, selectors[k]))])

\* the test "markdown && markdown.length > 100" of the description loops
longMarkdown(markdown) == IF markdown # <<>> /\ Len(markdown) > 100 THEN markdown ELSE Undefined

\* the description cascade shared by the extractors: the Markdown of the first selector's first element
\* whose rendering is longer than 100 characters
descriptionCascade(d, selectors) ==
  LET found(m) == IF m = <<>> THEN Undefined ELSE longMarkdown(htmlToMarkdown(innerHTML(m[1])))
  IN firstDefined([k \in 1..Len(selectors) |-> found(querySelectorAll(d, selectors[k]))])

\* the cleaned, non-empty texts of all elements matching the selectors, selector by selector
collectTexts(d, selectors) ==
  LET per(k) == LET m == querySelectorAll(d, selectors[k])
                IN SelectSeq([i \in 1..Len(m) |-> cleanText(elementText(m[i]))], LAMBDA t : t # <<>>)
  IN Concat([k \in 1..Len(selectors) |-> per(k)])

\* the skills cascade of LinkedIn and WelcomeToTheJungle: the distinct texts of length 2..49, in order
skillElements(d, selectors) ==
  LET texts == SelectSeq(collectTexts(d, selectors), LAMBDA t : Len(t) > 1 /\ Len(t) < 50)
      distinct == SelectSeq([i \in 1..Len(texts) |-> i], LAMBDA i : \A j \in 1..(i - 1) : texts[j] # texts[i])
  IN [k \in 1..Len(distinct) |-> texts[distinct[k]]]

\* s matches /\d+\s*(w1|w2|...)/ : a digit, white space, then one of the words
matchesCount(s, words) ==
  \E i \in 1..Len(s) :
    /\ s[i] \in Digits
    /\ \E j \in (i + 1)..Len(s) :
         /\ \A k \in (i + 1)..(j - 1) : s[k] \in WhiteSpace
         /\ \E w \in words : startsWith(SubSeq(s, j, Len(s)), w)

\* the number and the word of the leftmost match of /(\d+)\s*(w1|w2|...)/, the words tried in order
\* (the number is the whole run of digits: a match starts at the first digit of a run)
countMatch(s, words) ==
  LET wordAt(j) == SelectSeq(words, LAMBDA w : startsWith(SubSeq(s, j, Len(s)), w))
      unitPos(a) == LET e == digitsEnd(s, a)
                    IN CHOOSE j \in (e + 1)..(Len(s) + 1) :
                         (\A k \in (e + 1)..(j - 1) : s[k] \in WhiteSpace) /\ (j > Len(s) \/ s[j] \notin WhiteSpace)
      ok(a) == s[a] \in Digits /\ (a = 1 \/ s[a - 1] \notin Digits)
                 /\ unitPos(a) <= Len(s) /\ wordAt(unitPos(a)) # <<>>
      starts == {a \in 1..Len(s) : ok(a)}
  IN IF starts = {} THEN [found |-> FALSE, num |-> 0, unit |-> <<>>]
     ELSE LET a == CHOOSE x \in starts : \A y \in starts : x <= y
          IN [found |-> TRUE, num |-> parseInt(SubSeq(s, a, digitsEnd(s, a))), unit |-> wordAt(unitPos(a))[1]]

\* a partial JobOffer: every field, Undefined (or its absent value) until an extractor sets it
NoDate == [k |-> "absent"]
EmptyOffer ==
  [sourceUrl |-> Undefined, sourceDomain |-> Undefined, capturedAt |-> 0,
   title |-> Undefined, company |-> Undefined, location |-> Undefined, description |-> Undefined,
   contractType |-> Undefined, experience |-> Undefined, remoteType |-> "undefined",
   salary |-> NoSalary, skills |-> <<>>, publishedAt |-> NoDate]

\* what a call of extract yields when it throws
Thrown == [thrown |-> TRUE]

(***************************************************************************)
(* LinkedIn extractor (extractors/linkedin.ts)                             *)
(***************************************************************************)
LinkedInName == <<"l","i","n","k","e","d","i","n">>
LinkedInDomains == <<<<"l","i","n","k","e","d","i","n",".","c","o","m">>, <<"w","w","w",".","l","i","n","k","e","d","i","n",".","c","o","m">>>>

LinkedInCanHandle(u, d) ==
  (\E i \in 1..Len(LinkedInDomains) : LinkedInDomains[i] = getDomain(u)) /\ includes(u, <<"/","j","o","b","s","/">>)

LinkedInExtractTitle(d) ==
  selectorCascade(d,
    <<"h1.t-24.t-bold.inline", "h1.topcard__title", "h1.job-details-jobs-unified-top-card__job-title",
      ".jobs-unified-top-card__job-title", "h1[class*=\"job-title\"]", ".top-card-layout__title", "h1">>,
    LAMBDA text : Len(text) > 2)

LinkedInExtractCompany(d) ==
  selectorCascade(d,
    <<".topcard__org-name-link", ".job-details-jobs-unified-top-card__company-name",
      ".jobs-unified-top-card__company-name", "a[class*=\"company-name\"]",
      ".top-card-layout__card a[data-tracking-control-name=\"public_jobs_topcard-org-name\"]",
      "a[data-tracking-control-name*=\"company\"]">>,
    LAMBDA text : Len(text) > 1)

\* extractLocation: the first text, over all elements of each selector in turn, that looks like a place
LinkedInExtractLocation(d) ==
  LET texts == collectTexts(d,
        <<".topcard__flavor--bullet", ".job-details-jobs-unified-top-card__bullet",
          ".jobs-unified-top-card__bullet",
          ".top-card-layout__entity-info-container .topcard__flavor:not(.topcard__flavor--bullet)",
          "span[class*=\"location\"]">>)
      hits == SelectSeq(texts, LAMBDA text :
                /\ (includes(text, <<",">>) \/ includes(text, <<"F","r","a","n","c","e">>) \/ Len(text) > 3)
                /\ ~matchesCount(toLowerCase(text), {<<"w","e","e","k">>, <<"d","a","y">>, <<"h","o","u","r">>, <<"j","o","u","r">>, <<"s","e","m","a","i","n","e">>}))
  IN IF hits = <<>> THEN Undefined ELSE hits[1]

LinkedInExtractDescription(d) ==
  descriptionCascade(d,
    <<".show-more-less-html__markup", ".jobs-description__content", ".jobs-description-content__text",
      ".description__text", "[class*=\"job-description\"]", ".jobs-box__html-content">>)

\* one pass of the forEach body of extractJobDetails over a text
LinkedInDetailStep(result, text) ==
  LET lower == toLowerCase(text)
      contractType ==
        IF includes(lower, <<"c","d","i">>) \/ includes(lower, <<"f","u","l","l","-","t","i","m","e">>) \/ includes(lower, <<"t","e","m","p","s"," ","p","l","e","i","n">>) THEN <<"C","D","I">>
        ELSE IF includes(lower, <<"c","d","d">>) \/ includes(lower, <<"c","o","n","t","r","a","c","t">>) \/ includes(lower, <<"t","e","m","p","o","r","a","r","y">>) THEN <<"C","D","D">>
        ELSE IF includes(lower, <<"i","n","t","e","r","n">>) \/ includes(lower, <<"s","t","a","g","e">>) THEN <<"S","t","a","g","e">>
        ELSE IF includes(lower, <<"f","r","e","e","l","a","n","c","e">>) THEN <<"F","r","e","e","l","a","n","c","e">>
        ELSE result.contractType
      remoteType ==
        IF includes(lower, <<"r","e","m","o","t","e">>) \/ includes(lower, <<"t","&#233;","l","&#233;","t","r","a","v","a","i","l">>)
          THEN (IF includes(lower, <<"h","y","b","r","i","d">>) \/ includes(lower, <<"h","y","b","r","i","d","e">>) THEN "hybrid" ELSE "remote")
        ELSE IF includes(lower, <<"o","n","-","s","i","t","e">>) \/ includes(lower, <<"s","u","r"," ","s","i","t","e">>) THEN "onsite"
        ELSE result.remoteType
      experience ==
        IF includes(lower, <<"e","n","t","r","y">>) \/ includes(lower, <<"j","u","n","i","o","r">>) \/ includes(lower, <<"d","&#233;","b","u","t","a","n","t">>)
          THEN <<"J","u","n","i","o","r"," ","(","0","-","2"," ","a","n","s",")">>
        ELSE IF includes(lower, <<"m","i","d","-","s","e","n","i","o","r">>) \/ includes(lower, <<"c","o","n","f","i","r","m","&#233;">>) THEN <<"C","o","n","f","i","r","m","&#233;"," ","(","3","-","5"," ","a","n","s",")">>
        ELSE IF includes(lower, <<"s","e","n","i","o","r">>) \/ includes(lower, <<"e","x","p","e","r","t">>) THEN <<"S","e","n","i","o","r"," ","(","5","+"," ","a","n","s",")">>
        ELSE result.experience
  IN [contractType |-> contractType, remoteType |-> remoteType, experience |-> experience,
      salary |-> result.salary]

NoDetails == [contractType |-> Undefined, remoteType |-> "undefined", experience |-> Undefined, salary |-> NoSalary]

\* the loop over the collected texts, in scan order: each text may overwrite what earlier texts set
RECURSIVE scanDetails(_, _, _, _)
scanDetails(step(_, _), texts, i, result) ==
  IF i > Len(texts) THEN result ELSE scanDetails(step, texts, i + 1, step(result, texts[i]))

LinkedInExtractJobDetails(d) ==
  scanDetails(LinkedInDetailStep,
    collectTexts(d, <<".job-details-jobs-unified-top-card__job-insight", ".jobs-unified-top-card__job-insight",
                      ".description__job-criteria-item", ".job-criteria__item">>),
    1, NoDetails)

LinkedInExtractSkills(d) ==
  skillElements(d, <<".job-details-skill-match-modal__skill-name", ".job-details-how-you-match__skills-item",
                     "[class*=\"skill-match\"] span">>)

\* parseRelativeDate: the clock counts hours; the date is the day number of the clock less the offset.
\* A month is taken as 30 days (Date.setMonth moves by calendar months).
parseRelativeDate(text, clock) ==
  LET m == countMatch(toLowerCase(text),
             <<<<"h","o","u","r">>, <<"d","a","y">>, <<"w","e","e","k">>, <<"m","o","n","t","h">>, <<"j","o","u","r">>, <<"s","e","m","a","i","n","e">>, <<"m","o","i","s">>, <<"h","e","u","r","e">>>>)
      hours ==
        IF ~m.found THEN 0
        ELSE IF includes(m.unit, <<"h","o","u","r">>) \/ includes(m.unit, <<"h","e","u","r","e">>) THEN m.num
        ELSE IF includes(m.unit, <<"d","a","y">>) \/ includes(m.unit, <<"j","o","u","r">>) THEN m.num * 24
        ELSE IF includes(m.unit, <<"w","e","e","k">>) \/ includes(m.unit, <<"s","e","m","a","i","n","e">>) THEN m.num * 7 * 24
        ELSE IF includes(m.unit, <<"m","o","n","t","h">>) \/ includes(m.unit, <<"m","o","i","s">>) THEN m.num * 30 * 24
        ELSE 0
  IN [k |-> "date", day |-> (clock - hours) \div 24]

LinkedInExtractPostedDate(d, clock) ==
  LET text == selectorCascade(d, <<".posted-time-ago__text", ".jobs-unified-top-card__posted-date",
                                   "[class*=\"posted-date\"]">>, LAMBDA t : TRUE)
  IN IF text = Undefined THEN NoDate ELSE parseRelativeDate(text, clock)

\* calculateConfidence, in hundredths
LinkedInCalculateConfidence(offer) ==
  LET score == 50
        + (IF Truthy(offer.title) THEN 15 ELSE 0)
        + (IF Truthy(offer.company) THEN 10 ELSE 0)
        + (IF Truthy(offer.description) /\ Len(offer.description) > 200 THEN 15 ELSE 0)
        + (IF Truthy(offer.location) THEN 5 ELSE 0)
        + (IF Len(offer.skills) > 0 THEN 5 ELSE 0)
  IN IF score < 100 THEN score ELSE 100

\* whether the DOM calls made on behalf of the named extractor throw on this document
Throws(d, name) == name \in d.throwing

\* the end of extract: the confidence of the offer and the success result
LinkedInSuccess(offer) == createSuccessResult(LinkedInName, offer, LinkedInCalculateConfidence(offer))

\* the offer of extract once the title and the description are known
LinkedInOffer(u, d, clock, title, description, details, domSkills) ==
  [EmptyOffer EXCEPT
     !.sourceUrl = u, !.sourceDomain = <<"l","i","n","k","e","d","i","n",".","c","o","m">>, !.capturedAt = clock,
     !.title = title,
     !.company = LinkedInExtractCompany(d),
     !.location = LinkedInExtractLocation(d),
     !.description = description,
     !.contractType = details.contractType,
     !.experience = details.experience,
     !.remoteType = IF details.remoteType # "undefined" THEN details.remoteType
                    ELSE detectRemoteType(description),
     !.skills = IF domSkills # <<>> THEN domSkills ELSE extractSkillsFromText(description),
     !.publishedAt = LinkedInExtractPostedDate(d, clock)]

LinkedInExtractFrom(u, d, clock, title, description) ==
  IF ~Truthy(title) THEN createEmptyResult(LinkedInName)
  ELSE IF ~Truthy(description) THEN createEmptyResult(LinkedInName)
  ELSE LinkedInSuccess(LinkedInOffer(u, d, clock, title, description,
                                     LinkedInExtractJobDetails(d), LinkedInExtractSkills(d)))

LinkedInExtract(u, d, clock) ==
  IF Throws(d, LinkedInName) THEN Thrown
  ELSE LinkedInExtractFrom(u, d, clock, LinkedInExtractTitle(d), LinkedInExtractDescription(d))

(***************************************************************************)
(* Indeed extractor (extractors/indeed.ts)                                 *)
(***************************************************************************)
IndeedName == <<"i","n","d","e","e","d">>
IndeedDomains == <<<<"i","n","d","e","e","d",".","c","o","m">>, <<"i","n","d","e","e","d",".","f","r">>, <<"w","w","w",".","i","n","d","e","e","d",".","c","o","m">>, <<"w","w","w",".","i","n","d","e","e","d",".","f","r">>>>

\* canHandle: this.domains.some(d => domain.includes('indeed'))
IndeedCanHandle(u, d) ==
  \E i \in 1..Len(IndeedDomains) : includes(getDomain(u), <<"i","n","d","e","e","d">>)

\* text.replace(/^(new|nouveau)\s*/i, '').trim()
stripNewBadge(text) ==
  LET lower == toLowerCase(text)
      badge == IF startsWith(lower, <<"n","e","w">>) THEN 3 ELSE IF startsWith(lower, <<"n","o","u","v","e","a","u">>) THEN 7 ELSE 0
      rest == SubSeq(text, badge + 1, Len(text))
  IN IF badge = 0 THEN trim(text) ELSE trim(rest)

\* extractTitle: the first selector whose element text is longer than 2 decides, its badge stripped
badgeStripped(text) == IF text = Undefined THEN Undefined ELSE stripNewBadge(text)

IndeedExtractTitle(d) ==
  badgeStripped(selectorCascade(d,
    <<"h1.jobsearch-JobInfoHeader-title", "[data-testid=\"jobsearch-JobInfoHeader-title\"]",
      "h1[class*=\"JobTitle\"]", ".jobsearch-JobInfoHeader-title-container h1", "h1">>,
    LAMBDA t : Len(t) > 2))

IndeedExtractCompany(d) ==
  selectorCascade(d,
    <<"[data-testid=\"inlineHeader-companyName\"]", "[data-testid=\"jobsearch-CompanyInfoHeader-companyName\"]",
      ".jobsearch-InlineCompanyRating-companyHeader a", ".jobsearch-CompanyInfoWithoutHeaderImage a",
      "[class*=\"companyName\"]", ".icl-u-lg-mr--sm a">>,
    LAMBDA text : Len(text) > 1)

IndeedExtractLocation(d) ==
  selectorCascade(d,
    <<"[data-testid=\"inlineHeader-companyLocation\"]", "[data-testid=\"jobsearch-CompanyInfoHeader-location\"]",
      ".jobsearch-InlineCompanyRating-companyHeader + div", ".jobsearch-JobInfoHeader-subtitle > div:last-child",
      "[class*=\"companyLocation\"]">>,
    LAMBDA text : Len(text) > 2)

IndeedExtractDescription(d) ==
  descriptionCascade(d,
    <<"#jobDescriptionText", "[data-testid=\"jobDescriptionText\"]", ".jobsearch-jobDescriptionText",
      ".jobsearch-JobComponent-description", "[class*=\"jobDescription\"]">>)

\* extractSalary: parseSalary of the raw text of the first selector's first element that parses
IndeedExtractSalary(d) ==
  LET selectors == <<"[data-testid=\"jobsearch-JobMetadataHeader-salarySnippet\"]",
                     ".jobsearch-JobMetadataHeader-item .attribute_snippet", "#salaryInfoAndJobType",
                     "[class*=\"salary\"]", "[class*=\"salaire\"]">>
      found(m) == IF m = <<>> \/ elementText(m[1]) = <<>> THEN NoSalary ELSE parseSalary(elementText(m[1]))
      firstSalary(results) ==
        LET hits == {k \in 1..Len(results) : results[k] # NoSalary}
        IN IF hits = {} THEN NoSalary ELSE results[CHOOSE k \in hits : \A h \in hits : k <= h]
  IN firstSalary([k \in 1..Len(selectors) |-> found(querySelectorAll(d, selectors[k]))])

IndeedDetailStep(result, text) ==
  LET lower == toLowerCase(text)
      contractType ==
        IF includes(lower, <<"c","d","i">>) \/ includes(lower, <<"p","e","r","m","a","n","e","n","t">>) \/ includes(lower, <<"f","u","l","l","-","t","i","m","e">>) THEN <<"C","D","I">>
        ELSE IF includes(lower, <<"c","d","d">>) \/ includes(lower, <<"t","e","m","p","o","r","a","r","y">>) \/ includes(lower, <<"c","o","n","t","r","a","c","t">>) THEN <<"C","D","D">>
        ELSE IF includes(lower, <<"i","n","t","&#233;","r","i","m">>) \/ includes(lower, <<"i","n","t","e","r","i","m">>) THEN <<"I","n","t","&#233;","r","i","m">>
        ELSE IF includes(lower, <<"s","t","a","g","e">>) \/ includes(lower, <<"i","n","t","e","r","n">>) THEN <<"S","t","a","g","e">>
        ELSE IF includes(lower, <<"a","p","p","r","e","n","t","i">>) \/ includes(lower, <<"a","l","t","e","r","n","a","n","c","e">>) THEN <<"A","l","t","e","r","n","a","n","c","e">>
        ELSE result.contractType
      remoteType ==
        IF includes(lower, <<"t","&#233;","l","&#233;","t","r","a","v","a","i","l">>) \/ includes(lower, <<"r","e","m","o","t","e">>)
          THEN (IF includes(lower, <<"h","y","b","r","i","d">>) \/ includes(lower, <<"h","y","b","r","i","d","e">>) \/ includes(lower, <<"p","a","r","t","i","e","l">>)
                  THEN "hybrid" ELSE "remote")
        ELSE result.remoteType
  IN [contractType |-> contractType, remoteType |-> remoteType, experience |-> result.experience,
      salary |-> result.salary]

IndeedExtractJobDetails(d) ==
  scanDetails(IndeedDetailStep,
    collectTexts(d, <<".jobsearch-JobMetadataHeader-item", "[data-testid=\"jobsearch-JobMetadataHeader-item\"]",
                      "#salaryInfoAndJobType span", ".jobMetaDataGroup span">>),
    1, NoDetails)

\* variant: a confidence that grows with the hour of capture
confidenceByHour(offer) == 50 + offer.capturedAt

IndeedCalculateConfidence(offer) ==
  LET score == 50
        + (IF Truthy(offer.title) THEN 15 ELSE 0)
        + (IF Truthy(offer.company) THEN 10 ELSE 0)
        + (IF Truthy(offer.description) /\ Len(offer.description) > 200 THEN 15 ELSE 0)
        + (IF Truthy(offer.location) THEN 5 ELSE 0)
        + (IF offer.salary # NoSalary THEN 5 ELSE 0)
  IN IF score < 100 THEN score ELSE 100

IndeedSuccess(offer) == createSuccessResult(IndeedName, offer, IndeedCalculateConfidence(offer))

IndeedOffer(u, d, clock, title, description, details) ==
  [EmptyOffer EXCEPT
     !.sourceUrl = u, !.sourceDomain = getDomain(u), !.capturedAt = clock,
     !.title = title,
     !.company = IndeedExtractCompany(d),
     !.location = IndeedExtractLocation(d),
     !.description = description,
     !.salary = IndeedExtractSalary(d),
     !.contractType = details.contractType,
     !.remoteType = IF details.remoteType # "undefined" THEN details.remoteType
                    ELSE detectRemoteType(description),
     !.skills = extractSkillsFromText(description)]

\* variant: the title is tested before the badge is stripped, so an empty title passes
IndeedExtractUnchecked(u, d, clock, title, description) ==
  IF title = Undefined THEN createEmptyResult(IndeedName)
  ELSE IF ~Truthy(description) THEN createEmptyResult(IndeedName)
  ELSE IndeedSuccess(IndeedOffer(u, d, clock, title, description, IndeedExtractJobDetails(d)))

IndeedExtractFrom(u, d, clock, title, description) ==
  IF ~Truthy(title) THEN createEmptyResult(IndeedName)
  ELSE IF ~Truthy(description) THEN createEmptyResult(IndeedName)
  ELSE IndeedSuccess(IndeedOffer(u, d, clock, title, description, IndeedExtractJobDetails(d)))

IndeedExtract(u, d, clock) ==
  IF Throws(d, IndeedName) THEN Thrown
  ELSE IndeedExtractFrom(u, d, clock, IndeedExtractTitle(d), IndeedExtractDescription(d))

(***************************************************************************)
(* Welcome to the Jungle extractor (extractors/welcometothejungle.ts)      *)
(***************************************************************************)
WttjName == <<"w","e","l","c","o","m","e","t","o","t","h","e","j","u","n","g","l","e">>
WttjDomains == <<<<"w","e","l","c","o","m","e","t","o","t","h","e","j","u","n","g","l","e",".","c","o","m">>, <<"w","w","w",".","w","e","l","c","o","m","e","t","o","t","h","e","j","u","n","g","l","e",".","c","o","m">>>>

\* canHandle: this.domains.some(d => domain.includes('welcometothejungle'))
WttjCanHandle(u, d) ==
  \E i \in 1..Len(WttjDomains) : includes(getDomain(u), <<"w","e","l","c","o","m","e","t","o","t","h","e","j","u","n","g","l","e">>)

WttjExtractTitle(d) ==
  selectorCascade(d,
    <<"h1[class*=\"JobHeader\"]", "[data-testid=\"job-header-title\"]", "h1[class*=\"sc-\"]", "header h1", "h1">>,
    LAMBDA text : Len(text) > 2 /\ Len(text) < 200)

WttjExtractCompany(d) ==
  selectorCascade(d,
    <<"[data-testid=\"job-header-company-name\"]", "[class*=\"CompanyName\"]", "a[href*=\"/companies/\"]",
      "header a[class*=\"sc-\"]">>,
    LAMBDA text : Len(text) > 1 /\ Len(text) < 100)

WttjExtractLocation(d) ==
  LET texts == collectTexts(d,
        <<"[data-testid=\"job-header-location\"]", "[class*=\"Location\"]", "header [class*=\"sc-\"] span">>)
      hits == SelectSeq(texts, LAMBDA text :
                \/ includes(text, <<",">>) \/ includes(text, <<"P","a","r","i","s">>) \/ includes(text, <<"L","y","o","n">>)
                \/ includes(text, <<"F","r","a","n","c","e">>)
                \/ (Len(text) >= 5 /\ \A k \in 1..5 : text[k] \in Digits))
  IN IF hits = <<>> THEN Undefined ELSE hits[1]

\* extractDescription: the cascade, then the job sections longer than 20 characters joined by a blank line
longCombined(sections, combinedMarkdown) ==
  IF Len(sections) > 0 /\ Len(combinedMarkdown) > 100 THEN combinedMarkdown ELSE Undefined

combinedSections(sections) ==
  longCombined(sections,
    join(SelectSeq([i \in 1..Len(sections) |-> htmlToMarkdown(innerHTML(sections[i]))],
                   LAMBDA t : t # <<>> /\ Len(t) > 20),
         <<"\n","\n">>))

WttjExtractDescription(d) ==
  Nullish(descriptionCascade(d,
            <<"[data-testid=\"job-section-description\"]", "[class*=\"JobDescription\"]",
              "[class*=\"sc-\"] div[class*=\"sc-\"] p", "article", "main section">>),
          combinedSections(querySelectorAll(d, "[data-testid^=\"job-section-\"]")))

\* lower.match(/\d+k/)
digitsK(lower) == \E i \in 1..(Len(lower) - 1) : lower[i] \in Digits /\ lower[i + 1] = "k"

WttjDetailFields(result, lower, parsed, years) ==
  LET contractType ==
        IF includes(lower, <<"c","d","i">>) THEN <<"C","D","I">>
        ELSE IF includes(lower, <<"c","d","d">>) THEN <<"C","D","D">>
        ELSE IF includes(lower, <<"s","t","a","g","e">>) THEN <<"S","t","a","g","e">>
        ELSE IF includes(lower, <<"a","l","t","e","r","n","a","n","c","e">>) \/ includes(lower, <<"a","p","p","r","e","n","t","i","s","s","a","g","e">>) THEN <<"A","l","t","e","r","n","a","n","c","e">>
        ELSE IF includes(lower, <<"f","r","e","e","l","a","n","c","e">>) \/ includes(lower, <<"i","n","d","&#233;","p","e","n","d","a","n","t">>) THEN <<"F","r","e","e","l","a","n","c","e">>
        ELSE result.contractType
      experience ==
        IF ~years.found THEN result.experience
        ELSE IF years.num <= 2 THEN <<"J","u","n","i","o","r"," ","(","0","-","2"," ","a","n","s",")">>
        ELSE IF years.num <= 5 THEN <<"C","o","n","f","i","r","m","&#233;"," ","(","3","-","5"," ","a","n","s",")">>
        ELSE <<"S","e","n","i","o","r"," ","(","5","+"," ","a","n","s",")">>
      remoteType ==
        IF includes(lower, <<"t","&#233;","l","&#233;","t","r","a","v","a","i","l">>) \/ includes(lower, <<"r","e","m","o","t","e">>)
          THEN (IF includes(lower, <<"1","0","0","%">>) \/ includes(lower, <<"f","u","l","l">>) THEN "remote" ELSE "hybrid")
        ELSE IF includes(lower, <<"p","r","&#233;","s","e","n","t","i","e","l">>) \/ includes(lower, <<"s","u","r"," ","s","i","t","e">>) THEN "onsite"
        ELSE result.remoteType
  IN [contractType |-> contractType, remoteType |-> remoteType, experience |-> experience,
      salary |-> IF parsed # NoSalary THEN parsed ELSE result.salary]

\* one pass of the loop of extractMetadata over a collected text; the experience is read from
\* lower.match(/(\d+)\s*(an|année|year)/)
WttjDetailStep(result, text) ==
  WttjDetailFields(result, toLowerCase(text),
    IF includes(toLowerCase(text), <<"&#8364;">>) \/ includes(toLowerCase(text), <<"e","u","r">>) \/ digitsK(toLowerCase(text))
      THEN parseSalary(text) ELSE NoSalary,
    countMatch(toLowerCase(text), <<<<"a","n">>, <<"a","n","n","&#233;","e">>, <<"y","e","a","r">>>>))

WttjExtractMetadata(d) ==
  scanDetails(WttjDetailStep,
    collectTexts(d, <<"[data-testid*=\"job-info\"]", "[class*=\"JobInfo\"]", "header ul li",
                      "header div[class*=\"sc-\"]">>),
    1, NoDetails)

WttjExtractSkills(d) ==
  skillElements(d, <<"[data-testid=\"job-section-stack\"] li", "[data-testid=\"job-section-skills\"] li",
                     "[class*=\"TechStack\"] span", "[class*=\"Skill\"]">>)

WttjCalculateConfidence(offer) ==
  LET score == 60
        + (IF Truthy(offer.title) THEN 10 ELSE 0)
        + (IF Truthy(offer.company) THEN 10 ELSE 0)
        + (IF Truthy(offer.description) /\ Len(offer.description) > 200 THEN 10 ELSE 0)
        + (IF Truthy(offer.location) THEN 5 ELSE 0)
        + (IF Len(offer.skills) > 0 THEN 5 ELSE 0)
  IN IF score < 100 THEN score ELSE 100

WttjSuccess(offer) == createSuccessResult(WttjName, offer, WttjCalculateConfidence(offer))

WttjOffer(u, d, clock, title, description, metadata, domSkills) ==
  [EmptyOffer EXCEPT
     !.sourceUrl = u, !.sourceDomain = <<"w","e","l","c","o","m","e","t","o","t","h","e","j","u","n","g","l","e",".","c","o","m">>, !.capturedAt = clock,
     !.title = title,
     !.company = WttjExtractCompany(d),
     !.location = WttjExtractLocation(d),
     !.description = description,
     !.contractType = metadata.contractType,
     !.salary = metadata.salary,
     !.experience = metadata.experience,
     !.remoteType = IF metadata.remoteType # "undefined" THEN metadata.remoteType
                    ELSE detectRemoteType(description),
     !.skills = IF domSkills # <<>> THEN domSkills ELSE extractSkillsFromText(description)]

WttjExtractFrom(u, d, clock, title, description) ==
  IF ~Truthy(title) THEN createEmptyResult(WttjName)
  ELSE IF ~Truthy(description) THEN createEmptyResult(WttjName)
  ELSE WttjSuccess(WttjOffer(u, d, clock, title, description, WttjExtractMetadata(d), WttjExtractSkills(d)))

WttjExtract(u, d, clock) ==
  IF Throws(d, WttjName) THEN Thrown
  ELSE WttjExtractFrom(u, d, clock, WttjExtractTitle(d), WttjExtractDescription(d))

(***************************************************************************)
(* Generic extractor (extractors/generic.ts)                               *)
(***************************************************************************)
GenericName == <<"g","e","n","e","r","i","c">>

\* variant: generic declines a url that does not parse
handlesParsedUrl(u, d) == getDomain(u) # <<>>

\* canHandle(): always true
GenericCanHandle(u, d) == TRUE

\* A JSON value met in a JSON-LD script.  k is "null" for the JSON null and "obj" for an object;
\* a string-valued property is [k |-> "str", s |-> chars], a missing one [k |-> "absent"], and
\* [k |-> "other"] is a truthy value that is not a string (an array, an object, a number)
AbsentProp == [k |-> "absent", s |-> Undefined]
StrProp(s) == [k |-> "str", s |-> s]
OtherProp == [k |-> "other", s |-> Undefined]
NoGraph == [k |-> "absent", items |-> <<>>]
NoAddress == [k |-> "absent", parts |-> <<>>]
NoBaseSalary == [k |-> "absent", min |-> 0, max |-> 0, currency |-> Undefined, unitText |-> Undefined]
NoLdSkills == [k |-> "absent", items |-> <<>>]
LdObject(type, graph) ==
  [k |-> "obj", type |-> type, graph |-> graph, title |-> AbsentProp, description |-> <<>>,
   orgName |-> AbsentProp, address |-> NoAddress, employmentType |-> AbsentProp,
   baseSalary |-> NoBaseSalary, datePosted |-> Undefined, skills |-> NoLdSkills]
LdNull == [LdObject(Undefined, NoGraph) EXCEPT !.k = "null"]
NoJsonLd == [LdObject(Undefined, NoGraph) EXCEPT !.k = "none"]

\* item['@type'] === 'JobPosting'
IsJobPosting(item) == item.type = <<"J","o","b","P","o","s","t","i","n","g">>

\* One script of extractJsonLd.  The outcome of the try block: the JobPosting it returns, or NoJsonLd
\* when the loop ends or a TypeError (a null item, a null @graph member, an @graph that is not an
\* array) or a JSON syntax error is caught.
RECURSIVE scanLdItems(_, _)
scanLdItems(items, i) ==
  IF i > Len(items) THEN NoJsonLd
  ELSE LET item == items[i] IN
    IF item.k = "null" THEN NoJsonLd
    ELSE IF IsJobPosting(item) THEN item
    ELSE IF item.graph.k = "absent" THEN scanLdItems(items, i + 1)
    ELSE IF item.graph.k = "obj" THEN NoJsonLd
    ELSE LET g == item.graph.items
             hits == {j \in 1..Len(g) : g[j].k = "null" \/ IsJobPosting(g[j])}
             first == CHOOSE j \in hits : \A h \in hits : j <= h
         IN IF hits = {} THEN scanLdItems(items, i + 1)
            ELSE IF g[first].k = "null" THEN NoJsonLd
            ELSE g[first]

scriptJobPosting(script) == IF ~script.valid THEN NoJsonLd ELSE scanLdItems(script.items, 1)

\* extractJsonLd: the JobPosting of the first script that yields one
extractJsonLd(d) ==
  LET hits == SelectSeq(d.scripts, LAMBDA script : scriptJobPosting(script) # NoJsonLd)
  IN IF hits = <<>> THEN NoJsonLd ELSE scriptJobPosting(hits[1])

normalizeContractType(type) ==
  LET lower == toLowerCase(type) IN
  IF includes(lower, <<"f","u","l","l">>) \/ includes(lower, <<"p","e","r","m","a","n","e","n","t">>) \/ lower = <<"c","d","i">> THEN <<"C","D","I">>
  ELSE IF includes(lower, <<"t","e","m","p","o","r","a","r","y">>) \/ includes(lower, <<"c","o","n","t","r","a","c","t">>) \/ lower = <<"c","d","d">> THEN <<"C","D","D">>
  ELSE IF includes(lower, <<"i","n","t","e","r","n">>) \/ includes(lower, <<"s","t","a","g","e">>) THEN <<"S","t","a","g","e">>
  ELSE IF includes(lower, <<"f","r","e","e","l","a","n","c","e">>) \/ includes(lower, <<"c","o","n","t","r","a","c","t","o","r">>) THEN <<"F","r","e","e","l","a","n","c","e">>
  ELSE IF includes(lower, <<"p","a","r","t","-","t","i","m","e">>) \/ includes(lower, <<"p","a","r","t","i","e","l">>) THEN <<"T","e","m","p","s"," ","p","a","r","t","i","e","l">>
  ELSE IF includes(lower, <<"a","p","p","r","e","n","t","i">>) THEN <<"A","l","t","e","r","n","a","n","c","e">>
  ELSE type

normalizeSalaryPeriod(period) ==
  IF ~Truthy(period) THEN "year"
  ELSE LET lower == toLowerCase(period) IN
    IF includes(lower, <<"h","o","u","r">>) \/ includes(lower, <<"h","e","u","r","e">>) THEN "hour"
    ELSE IF includes(lower, <<"d","a","y">>) \/ includes(lower, <<"j","o","u","r">>) THEN "day"
    ELSE IF includes(lower, <<"m","o","n","t","h">>) \/ includes(lower, <<"m","o","i","s">>) THEN "month"
    ELSE "year"

\* applyJsonLdData throws a TypeError when a string method is called on a value that is not a string
applyJsonLdThrows(data) ==
  data.title.k = "other" \/ data.orgName.k = "other" \/ data.employmentType.k = "other"

applyJsonLdData(offer, data) ==
  LET parts == SelectSeq(data.address.parts, Truthy) IN
  [offer EXCEPT
     !.title = IF Truthy(data.title.s) THEN cleanText(data.title.s) ELSE @,
     !.description = IF data.description # <<>> THEN htmlToMarkdown(data.description) ELSE @,
     !.company = IF Truthy(data.orgName.s) THEN cleanText(data.orgName.s) ELSE @,
     !.location = IF data.address.k = "obj" THEN join(parts, <<","," ">>) ELSE @,
     !.contractType = IF Truthy(data.employmentType.s) THEN normalizeContractType(data.employmentType.s) ELSE @,
     !.salary = IF data.baseSalary.k = "obj"
                  THEN [min |-> data.baseSalary.min, max |-> data.baseSalary.max,
                        currency |-> IF data.baseSalary.currency # Undefined THEN data.baseSalary.currency
                                     ELSE <<"E","U","R">>,
                        period |-> normalizeSalaryPeriod(data.baseSalary.unitText)]
                  ELSE @,
     !.publishedAt = IF Truthy(data.datePosted) THEN [k |-> "iso", s |-> data.datePosted] ELSE @,
     !.skills = IF data.skills.k # "absent" THEN data.skills.items ELSE @]

\* variant: extractMetaTags without the tests on what the offer already holds
overwritingMetaTags(offer, d) ==
  LET m == d.meta IN
  [offer EXCEPT
     !.title = IF Truthy(m.ogTitle) \/ Truthy(m.twitterTitle)
                 THEN cleanText(Nullish(m.ogTitle, m.twitterTitle)) ELSE @,
     !.description = IF Truthy(m.ogDesc) \/ Truthy(m.twitterDesc) \/ Truthy(m.metaDesc)
                       THEN cleanText(Nullish(m.ogDesc, Nullish(m.twitterDesc, m.metaDesc))) ELSE @,
     !.company = IF Truthy(m.ogSiteName) THEN cleanText(m.ogSiteName) ELSE @]

\* extractMetaTags; a meta content is Undefined when the tag or its content attribute is missing
extractMetaTags(offer, d) ==
  LET m == d.meta IN
  [offer EXCEPT
     !.title = IF ~Truthy(@) /\ (Truthy(m.ogTitle) \/ Truthy(m.twitterTitle))
                 THEN cleanText(Nullish(m.ogTitle, m.twitterTitle)) ELSE @,
     !.description = IF ~Truthy(@) /\ (Truthy(m.ogDesc) \/ Truthy(m.twitterDesc) \/ Truthy(m.metaDesc))
                       THEN cleanText(Nullish(m.ogDesc, Nullish(m.twitterDesc, m.metaDesc))) ELSE @,
     !.company = IF ~Truthy(@) /\ Truthy(m.ogSiteName) THEN cleanText(m.ogSiteName) ELSE @]

\* the characters of the class [|â€“-] of the document-title split
TitleSeparators == {"|", "&#226;", "&#8364;", "&#8220;", "-"}

\* docTitle.split(/\s*[|...-]\s*/)[0]: what precedes the first separator and the white space before it
beforeSeparator(docTitle) ==
  LET seps == {j \in 1..Len(docTitle) : docTitle[j] \in TitleSeparators}
      j == CHOOSE x \in seps : \A y \in seps : x <= y
      i == CHOOSE x \in 1..j : (\A k \in x..(j - 1) : docTitle[k] \in WhiteSpace)
                               /\ (x = 1 \/ docTitle[x - 1] \notin WhiteSpace)
  IN IF seps = {} THEN docTitle ELSE SubSeq(docTitle, 1, i - 1)

GenericExtractTitle(d) ==
  Nullish(selectorCascade(d,
            <<"h1[class*=\"job-title\"]", "h1[class*=\"jobtitle\"]", "h1[class*=\"position\"]",
              "[class*=\"job-title\"] h1", "[class*=\"job-header\"] h1", "[data-testid*=\"job-title\"]", "h1">>,
            LAMBDA t : Len(t) > 3 /\ Len(t) < 200),
          IF d.title # <<>> THEN cleanText(beforeSeparator(d.title)) ELSE Undefined)

GenericExtractDescription(d) ==
  descriptionCascade(d,
    <<"[class*=\"job-description\"]", "[class*=\"jobdescription\"]", "[class*=\"description-content\"]",
      "[data-testid*=\"job-description\"]", "[id*=\"job-description\"]", "article", "main">>)

GenericExtractCompany(d) ==
  selectorCascade(d,
    <<"[class*=\"company-name\"]", "[class*=\"companyname\"]", "[class*=\"employer\"]",
      "[data-testid*=\"company\"]", "[class*=\"hiring-organization\"]">>,
    LAMBDA text : Len(text) > 1 /\ Len(text) < 100)

GenericExtractLocation(d) ==
  selectorCascade(d,
    <<"[class*=\"job-location\"]", "[class*=\"joblocation\"]", "[class*=\"location\"]",
      "[data-testid*=\"location\"]", "[class*=\"address\"]">>,
    LAMBDA text : Len(text) > 1 /\ Len(text) < 200)

\* variant: calculateConfidence without the weight of the title
confidenceWithoutTitle(offer) ==
  (IF Truthy(offer.description) /\ Len(offer.description) > 200 THEN 25 ELSE 0)
  + (IF Truthy(offer.company) THEN 15 ELSE 0)
  + (IF Truthy(offer.location) THEN 10 ELSE 0)
  + (IF offer.salary # NoSalary THEN 10 ELSE 0)
  + (IF Len(offer.skills) > 0 THEN 10 ELSE 0)
  + (IF Truthy(offer.contractType) THEN 5 ELSE 0)

\* variant: calculateConfidence that counts the weight of the salary for every offer
confidenceWithSalary(offer) ==
  (IF Truthy(offer.title) THEN 25 ELSE 0)
  + (IF Truthy(offer.description) /\ Len(offer.description) > 200 THEN 25 ELSE 0)
  + (IF Truthy(offer.company) THEN 15 ELSE 0)
  + (IF Truthy(offer.location) THEN 10 ELSE 0)
  + 10
  + (IF Len(offer.skills) > 0 THEN 10 ELSE 0)
  + (IF Truthy(offer.contractType) THEN 5 ELSE 0)

\* calculateConfidence, in hundredths
GenericCalculateConfidence(offer) ==
  LET score ==
          (IF Truthy(offer.title) THEN 25 ELSE 0)
        + (IF Truthy(offer.description) /\ Len(offer.description) > 200 THEN 25 ELSE 0)
        + (IF Truthy(offer.company) THEN 15 ELSE 0)
        + (IF Truthy(offer.location) THEN 10 ELSE 0)
        + (IF offer.salary # NoSalary THEN 10 ELSE 0)
        + (IF Len(offer.skills) > 0 THEN 10 ELSE 0)
        + (IF Truthy(offer.contractType) THEN 5 ELSE 0)
  IN IF score < 100 THEN score ELSE 100

\* step 1 of extract: the JSON-LD data, when there is one
GenericApplyJsonLd(offer, jsonLdData) ==
  IF jsonLdData # NoJsonLd THEN applyJsonLdData(offer, jsonLdData) ELSE offer

\* step 3: the common HTML patterns fill what is still missing
GenericFillFromHtml(offer, d) ==
  [offer EXCEPT
     !.title = IF ~Truthy(@) THEN GenericExtractTitle(d) ELSE @,
     !.description = IF ~Truthy(@) THEN GenericExtractDescription(d) ELSE @,
     !.company = IF ~Truthy(@) THEN GenericExtractCompany(d) ELSE @,
     !.location = IF ~Truthy(@) THEN GenericExtractLocation(d) ELSE @]

\* step 4: skills from the description
GenericFillSkills(offer) ==
  [offer EXCEPT !.skills = IF Truthy(offer.description) /\ Len(@) = 0
                             THEN extractSkillsFromText(offer.description) ELSE @]

\* step 5: the remote type from the title and the description
GenericFillRemoteType(offer) ==
  [offer EXCEPT !.remoteType =
     IF @ = "undefined" \/ @ = "unknown"
       THEN detectRemoteType(Nullish(offer.title, <<>>) \o <<" ">> \o Nullish(offer.description, <<>>))
     ELSE @]

GenericOffer(u, d, clock, jsonLdData) ==
  GenericFillRemoteType(GenericFillSkills(GenericFillFromHtml(
    extractMetaTags(
      GenericApplyJsonLd(
        [EmptyOffer EXCEPT !.sourceUrl = u, !.sourceDomain = getDomain(u), !.capturedAt = clock],
        jsonLdData),
      d),
    d)))

\* variant: the end of extract with the weighted sum whether or not there is a JobPosting
weightedResult(offer, jsonLdData) ==
  IF ~Truthy(offer.title) \/ ~Truthy(offer.description) THEN createEmptyResult(GenericName)
  ELSE createSuccessResult(GenericName, offer, GenericCalculateConfidence(offer))

\* the end of extract: the confidence, then the test on the title and the description
GenericResult(offer, jsonLdData) ==
  IF ~Truthy(offer.title) \/ ~Truthy(offer.description) THEN createEmptyResult(GenericName)
  ELSE createSuccessResult(GenericName, offer,
         IF jsonLdData # NoJsonLd THEN 90 ELSE GenericCalculateConfidence(offer))

GenericExtractWith(u, d, clock, jsonLdData) ==
  IF jsonLdData # NoJsonLd /\ applyJsonLdThrows(jsonLdData) THEN Thrown
  ELSE GenericResult(GenericOffer(u, d, clock, jsonLdData), jsonLdData)

GenericExtract(u, d, clock) ==
  IF Throws(d, GenericName) THEN Thrown
  ELSE GenericExtractWith(u, d, clock, extractJsonLd(d))

(***************************************************************************)
(* Extractor registry (extractors/index.ts)                                *)
(***************************************************************************)
\* the array literal of the registry, in registration order
registered == <<LinkedInName, IndeedName, WttjName, GenericName>>

priority(name) == IF name = GenericName THEN 0 ELSE 10

\* .sort((a, b) => b.priority - a.priority): Array.prototype.sort is stable
sortRank(i) ==
  Cardinality({j \in 1..Len(registered) :
                 \/ priority(registered[j]) > priority(registered[i])
                 \/ (priority(registered[j]) = priority(registered[i]) /\ j < i)}) + 1

\* variant: the comparator reversed, (a, b) => a.priority - b.priority
sortedAscending == <<GenericName, LinkedInName, IndeedName, WttjName>>

extractors == [r \in 1..Len(registered) |-> registered[CHOOSE i \in 1..Len(registered) : sortRank(i) = r]]

\* extractor.canHandle(url, doc) and extractor.extract(url, doc) of the extractor of that name
canHandle(name, u, d) ==
  CASE name = LinkedInName -> LinkedInCanHandle(u, d)
    [] name = IndeedName -> IndeedCanHandle(u, d)
    [] name = WttjName -> WttjCanHandle(u, d)
    [] name = GenericName -> GenericCanHandle(u, d)

extract(name, u, d, clock) ==
  CASE name = LinkedInName -> LinkedInExtract(u, d, clock)
    [] name = IndeedName -> IndeedExtract(u, d, clock)
    [] name = WttjName -> WttjExtract(u, d, clock)
    [] name = GenericName -> GenericExtract(u, d, clock)

domains(name) ==
  CASE name = LinkedInName -> LinkedInDomains
    [] name = IndeedName -> IndeedDomains
    [] name = WttjName -> WttjDomains
    [] name = GenericName -> <<<<"*">>>>

\* the extractors array as the module builds it when it is loaded
Registry ==
  [r \in 1..Len(extractors) |->
     [name |-> extractors[r], domains |-> domains(extractors[r]), priority |-> priority(extractors[r])]]

(***************************************************************************)
(* Pages, scripts and URLs the registry is run on                          *)
(***************************************************************************)
PageElement(sel, kids) == [sel |-> sel, kids |-> kids]
Para(s) == Element("p", <<TextNode(s)>>)
Item(s) == Element("li", <<TextNode(s)>>)

NoMeta ==
  [ogTitle |-> Undefined, ogDesc |-> Undefined, ogSiteName |-> Undefined,
   twitterTitle |-> Undefined, twitterDesc |-> Undefined, metaDesc |-> Undefined]

LongDescription ==
  << Element("h2", <<TextNode(<<"L","e"," ","p","o","s","t","e">>)>>),
     Para(<<"N","o","u","s"," ","r","e","c","h","e","r","c","h","o","n","s"," ","u","n","e"," ","p","e","r","s","o","n","n","e"," ","q","u","i"," ","a","i","m","e"," ","P","y","t","h","o","n"," ","e","t"," ","D","o","c","k","e","r"," ","p","o","u","r"," ","r","e","j","o","i","n","d","r","e"," ","n","o","t","r","e"," ","&#233;","q","u","i","p","e"," ","p","l","a","t","e","f","o","r","m","e"," ","&#224;"," ","L","y","o","n",".">>),
     Element("ul", <<Item(<<"C","o","n","c","e","v","o","i","r"," ","d","e","s"," ","s","e","r","v","i","c","e","s"," ","R","E","S","T">>), Item(<<"T","&#233;","l","&#233;","t","r","a","v","a","i","l"," ","p","a","r","t","i","e","l"," ","p","o","s","s","i","b","l","e">>)>>),
     Para(<<"V","o","u","s"," ","t","r","a","v","a","i","l","l","e","r","e","z"," ","a","v","e","c"," ","d","e","s"," ","&#233;","q","u","i","p","e","s"," ","p","r","o","d","u","i","t"," ","s","u","r"," ","d","e","s"," ","s","u","j","e","t","s"," ","v","a","r","i","&#233;","s",","," ","d","u"," ","p","r","o","t","o","t","y","p","e"," ","&#224;"," ","l","a"," ","m","i","s","e"," ","e","n"," ","p","r","o","d","u","c","t","i","o","n",".">>) >>

MediumDescription ==
  << Para(<<"J","o","i","n"," ","o","u","r"," ","d","a","t","a"," ","t","e","a","m"," ","i","n"," ","P","a","r","i","s","."," ","F","u","l","l"," ","r","e","m","o","t","e"," ","i","s"," ","p","o","s","s","i","b","l","e"," ","f","o","r"," ","t","h","i","s"," ","r","o","l","e",".">>),
     Para(<<"Y","o","u"," ","w","i","l","l"," ","b","u","i","l","d"," ","p","i","p","e","l","i","n","e","s"," ","w","i","t","h"," ","P","y","t","h","o","n"," ","a","n","d"," ","P","o","s","t","g","r","e","S","Q","L"," ","e","v","e","r","y"," ","d","a","y",".">>) >>

PlainDescription ==
  << Para(<<"V","o","u","s"," ","a","c","c","o","m","p","a","g","n","e","z"," ","n","o","s"," ","c","l","i","e","n","t","s"," ","d","a","n","s"," ","l","a"," ","c","o","n","d","u","i","t","e"," ","d","e"," ","l","e","u","r","s"," ","p","r","o","j","e","t","s",","," ","d","e"," ","l","a"," ","p","r","e","m","i","&#232;","r","e"," ","r","e","n","c","o","n","t","r","e"," ","a","u"," ","b","i","l","a","n",".">>),
     Para(<<"L","e"," ","p","o","s","t","e"," ","e","s","t"," ","o","u","v","e","r","t"," ","&#224;"," ","t","o","u","s"," ","l","e","s"," ","p","r","o","f","i","l","s",".">>) >>

ShortDescription == << Para(<<"A","p","p","l","y"," ","n","o","w",".">>) >>

Page(title, elems, meta) == [title |-> title, elems |-> elems, meta |-> meta]

EmptyPage == Page(<<>>, <<>>, NoMeta)

LinkedInPage ==
  Page(<<"S","e","n","i","o","r"," ","P","y","t","h","o","n"," ","D","e","v","e","l","o","p","e","r"," ","|"," ","L","i","n","k","e","d","I","n">>,
    << PageElement({"h1.topcard__title", "h1"}, <<TextNode(<<" "," ","S","e","n","i","o","r"," ","P","y","t","h","o","n","\n"," ","D","e","v","e","l","o","p","e","r"," ">>)>>),
       PageElement({".topcard__org-name-link"}, <<TextNode(<<"A","c","m","e">>)>>),
       PageElement({".topcard__flavor--bullet"}, <<TextNode(<<"P","a","r","i","s",","," ","F","r","a","n","c","e">>)>>),
       PageElement({".posted-time-ago__text"}, <<TextNode(<<"P","o","s","t","e","d"," ","1"," ","h","o","u","r"," ","a","g","o">>)>>),
       PageElement({".description__job-criteria-item"}, <<TextNode(<<"F","u","l","l","-","t","i","m","e">>)>>),
       PageElement({".description__job-criteria-item"}, <<TextNode(<<"M","i","d","-","S","e","n","i","o","r"," ","l","e","v","e","l">>)>>),
       PageElement({".show-more-less-html__markup"}, LongDescription) >>,
    NoMeta)

\* a LinkedIn job page whose description has not loaded yet; the page carries an article
LinkedInTeaserPage ==
  Page(<<"D","a","t","a"," ","E","n","g","i","n","e","e","r"," ","-"," ","A","c","m","e">>,
    << PageElement({"h1.topcard__title", "h1"}, <<TextNode(<<"D","a","t","a"," ","E","n","g","i","n","e","e","r">>)>>),
       PageElement({".show-more-less-html__markup"}, ShortDescription),
       PageElement({"article"}, PlainDescription) >>,
    NoMeta)

\* an Indeed page whose heading is only the "nouveau" badge
IndeedBadgePage ==
  Page(<<"O","f","f","r","e"," ","|"," ","I","n","d","e","e","d">>,
    << PageElement({"h1.jobsearch-JobInfoHeader-title", "h1"}, <<TextNode(<<"N","o","u","v","e","a","u">>)>>),
       PageElement({"#jobDescriptionText", "[id*=\"job-description\"]"}, MediumDescription) >>,
    NoMeta)

IndeedPage ==
  Page(<<"D","a","t","a"," ","E","n","g","i","n","e","e","r"," ","-"," ","I","n","d","e","e","d">>,
    << PageElement({"h1.jobsearch-JobInfoHeader-title", "h1"}, <<TextNode(<<"n","e","w"," ","D","a","t","a"," ","E","n","g","i","n","e","e","r">>)>>),
       PageElement({"[data-testid=\"inlineHeader-companyName\"]"}, <<TextNode(<<"A","c","m","e">>)>>),
       PageElement({"#salaryInfoAndJobType", "[class*=\"salary\"]"}, <<TextNode(<<"4","5"," ","0","0","0"," ","&#8364;"," ","-"," ","5","5"," ","0","0","0"," ","&#8364;"," ","p","a","r"," ","a","n">>)>>),
       PageElement({".jobsearch-JobMetadataHeader-item"}, <<TextNode(<<"C","D","I",","," ","t","&#233;","l","&#233;","t","r","a","v","a","i","l"," ","h","y","b","r","i","d","e">>)>>),
       PageElement({"#jobDescriptionText"}, MediumDescription) >>,
    NoMeta)

WttjPage ==
  Page(<<"D","&#233;","v","e","l","o","p","p","e","u","r"," ","P","y","t","h","o","n"," ","&#8211;"," ","A","c","m","e">>,
    << PageElement({"[data-testid=\"job-header-title\"]", "h1"}, <<TextNode(<<"D","&#233;","v","e","l","o","p","p","e","u","r"," ","P","y","t","h","o","n">>)>>),
       PageElement({"[data-testid*=\"job-info\"]"}, <<TextNode(<<"C","D","I">>)>>),
       PageElement({"[data-testid*=\"job-info\"]"}, <<TextNode(<<"T","&#233;","l","&#233;","t","r","a","v","a","i","l"," ","1","0","0","%">>)>>),
       PageElement({"[data-testid*=\"job-info\"]"}, <<TextNode(<<"3"," ","a","n","s">>)>>),
       PageElement({"[data-testid^=\"job-section-\"]"},
         <<Para(<<"V","o","u","s"," ","r","e","j","o","i","n","d","r","e","z"," ","u","n","e"," ","&#233;","q","u","i","p","e"," ","d","e"," ","d","i","x"," ","p","e","r","s","o","n","n","e","s"," ","&#224;"," ","L","y","o","n",","," ","e","n"," ","p","r","&#233;","s","e","n","t","i","e","l",".">>)>>),
       PageElement({"[data-testid^=\"job-section-\"]"}, ShortDescription),
       PageElement({"[data-testid^=\"job-section-\"]", "[data-testid=\"job-section-stack\"] li"},
         <<Para(<<"N","o","t","r","e"," ","p","i","l","e"," ","t","e","c","h","n","i","q","u","e"," ","c","o","m","p","r","e","n","d"," ","K","u","b","e","r","n","e","t","e","s",","," ","G","o"," ","e","t"," ","T","e","r","r","a","f","o","r","m",".">>)>>) >>,
    NoMeta)

\* a page of an unknown site described by its meta tags and its document title only
MetaPage ==
  Page(<<"D","e","v","O","p","s"," ","E","n","g","i","n","e","e","r"," ","|"," ","A","c","m","e"," ","C","a","r","e","e","r","s">>, <<>>,
    [NoMeta EXCEPT !.ogTitle = <<>>, !.twitterTitle = <<" ">>, !.metaDesc = <<"H","y","b","r","i","d"," ","r","o","l","e"," ","i","n"," ","N","a","n","t","e","s",".">>,
                   !.ogSiteName = <<"A","c","m","e">>])

Pages == {EmptyPage, LinkedInPage, LinkedInTeaserPage, IndeedBadgePage, IndeedPage, WttjPage, MetaPage}

JobPostingLd ==
  [LdObject(<<"J","o","b","P","o","s","t","i","n","g">>, NoGraph) EXCEPT
     !.title = StrProp(<<" ","S","i","t","e"," ","R","e","l","i","a","b","i","l","i","t","y"," "," ","E","n","g","i","n","e","e","r"," ">>),
     !.description = LongDescription,
     !.orgName = StrProp(<<"A","c","m","e">>),
     !.address = [k |-> "obj", parts |-> <<<<"L","y","o","n">>, Undefined, <<"F","R">>>>],
     !.employmentType = StrProp(<<"F","U","L","L","_","T","I","M","E">>),
     !.baseSalary = [k |-> "obj", min |-> 40000, max |-> 50000, currency |-> Undefined, unitText |-> <<"M","O","N","T","H">>],
     !.datePosted = <<"2","0","2","4","-","0","5","-","0","1">>,
     !.skills = [k |-> "str", items |-> <<<<"L","i","n","u","x">>>>]]

\* a JobPosting whose employmentType is an array of strings
ArrayTypeLd == [JobPostingLd EXCEPT !.employmentType = OtherProp]

\* a JobPosting that names the job only
TitleOnlyLd == [LdObject(<<"J","o","b","P","o","s","t","i","n","g">>, NoGraph) EXCEPT !.title = StrProp(<<"P","r","o","d","u","c","t"," ","M","a","n","a","g","e","r">>)]

Script(valid, items) == [valid |-> valid, items |-> items]

ScriptSets ==
  { <<>>,
    <<Script(TRUE, <<JobPostingLd>>)>>,
    <<Script(TRUE, <<ArrayTypeLd>>)>>,
    <<Script(FALSE, <<>>), Script(TRUE, <<LdNull, JobPostingLd>>)>>,
    <<Script(TRUE, <<LdObject(<<"W","e","b","S","i","t","e">>, NoGraph),
                     LdObject(Undefined, [k |-> "arr", items |-> <<LdObject(<<"O","r","g","a","n","i","z","a","t","i","o","n">>, NoGraph), TitleOnlyLd>>])>>)>> }

\* the extractors whose DOM calls raise on the document
Throwings == {{}, {LinkedInName, IndeedName, WttjName}, {LinkedInName, IndeedName, WttjName, GenericName}}

Docs ==
  {[title |-> p.title, elems |-> p.elems, meta |-> p.meta, scripts |-> s, throwing |-> t] :
     p \in Pages, s \in ScriptSets, t \in Throwings}

Urls ==
  { <<"h","t","t","p","s",":","/","/","w","w","w",".","l","i","n","k","e","d","i","n",".","c","o","m","/","j","o","b","s","/","v","i","e","w","/","1","2","3">>,
    <<"h","t","t","p","s",":","/","/","w","w","w",".","l","i","n","k","e","d","i","n",".","c","o","m","/","f","e","e","d","/">>,
    <<"h","t","t","p","s",":","/","/","f","r",".","i","n","d","e","e","d",".","c","o","m","/","v","i","e","w","j","o","b","?","j","k","=","4","f","2">>,
    <<"h","t","t","p","s",":","/","/","j","o","b","s",".","i","n","d","e","e","d",".","w","e","l","c","o","m","e","t","o","t","h","e","j","u","n","g","l","e",".","c","o","m","/","f","r","/","j","o","b","s","/","d","e","v">>,
    <<"h","t","t","p","s",":","/","/","w","w","w",".","w","e","l","c","o","m","e","t","o","t","h","e","j","u","n","g","l","e",".","c","o","m","/","f","r","/","c","o","m","p","a","n","i","e","s","/","a","c","m","e","/","j","o","b","s","/","d","e","v">>,
    <<"h","t","t","p","s",":","/","/","c","a","r","e","e","r","s",".","a","c","m","e",".","i","o","/","p","o","s","i","t","i","o","n","/","4","2">>,
    <<"c","a","r","e","e","r","s",".","a","c","m","e",".","i","o">> }

(***************************************************************************)
(* extractJobOffer as a process: the loop over the extractors, suspended   *)
(* at each await of extractor.extract.  The clock counts hours.            *)
(***************************************************************************)
MaxClock == 2
MaxRuns == 2

NoDoc == [title |-> <<>>, elems |-> <<>>, meta |-> NoMeta, scripts |-> <<>>, throwing |-> {}]
NoResult == [none |-> TRUE]

IdleCall ==
  /\ url = <<>> /\ doc = NoDoc /\ now = 0 /\ pc = "idle" /\ idx = 0 /\ pending = NoResult
  /\ calls = <<>> /\ ret = NoResult /\ prevRet = NoResult /\ run = 0
  /\ registry = Registry /\ IdleExtension

Init ==
  /\ url \in Urls /\ doc \in Docs
  /\ now = 0 /\ pc = "idle" /\ idx = 0 /\ pending = NoResult
  /\ calls = <<>> /\ ret = NoResult /\ prevRet = NoResult /\ run = 0
  /\ registry = Registry /\ IdleExtension
  /\ fnIn = <<>> /\ fnOut = "unused"

\* the caller calls extractJobOffer(url, doc)
Start ==
  /\ pc = "idle"
  /\ pc' = "loop" /\ idx' = 1 /\ run' = 1
  /\ UNCHANGED <<url, doc, now, pending, calls, ret, prevRet, fnIn, fnOut, registry, store, refreshPromise, isExtracting, requests>>

\* if (extractor.canHandle(url, doc)) is false: the next extractor
Decline ==
  /\ pc = "loop" /\ idx <= Len(extractors)
  /\ ~canHandle(extractors[idx], url, doc)
  /\ idx' = idx + 1
  /\ UNCHANGED <<url, doc, now, pc, pending, calls, ret, prevRet, run, fnIn, fnOut, registry, store, refreshPromise, isExtracting, requests>>

\* await extractor.extract(url, doc)
Invoke ==
  /\ pc = "loop" /\ idx <= Len(extractors)
  /\ canHandle(extractors[idx], url, doc)
  /\ pending' = extract(extractors[idx], url, doc, now)
  /\ calls' = Append(calls, [name |-> extractors[idx], clock |-> now, result |-> pending'])
  /\ pc' = "await"
  /\ UNCHANGED <<url, doc, now, idx, ret, prevRet, run, fnIn, fnOut, registry, store, refreshPromise, isExtracting, requests>>

\* if (result.success && result.offer) return result
ReturnSuccess ==
  /\ pc = "await" /\ pending # Thrown
  /\ pending.success /\ pending.offer # NoOffer
  /\ ret' = pending /\ pc' = "done"
  /\ UNCHANGED <<url, doc, now, idx, pending, calls, prevRet, run, fnIn, fnOut, registry, store, refreshPromise, isExtracting, requests>>

\* the extractor failed: trying next
TryNext ==
  /\ pc = "await" /\ pending # Thrown
  /\ ~(pending.success /\ pending.offer # NoOffer)
  /\ idx' = idx + 1 /\ pc' = "loop"
  /\ UNCHANGED <<url, doc, now, pending, calls, ret, prevRet, run, fnIn, fnOut, registry, store, refreshPromise, isExtracting, requests>>

\* variant: no catch, the fault leaves extractJobOffer
Rethrow ==
  /\ pc = "await" /\ pending = Thrown
  /\ ret' = pending /\ pc' = "done"
  /\ UNCHANGED <<url, doc, now, idx, pending, calls, prevRet, run, fnIn, fnOut, registry, store, refreshPromise, isExtracting, requests>>

\* catch (error): logged, the loop goes on
CatchFault ==
  /\ pc = "await" /\ pending = Thrown
  /\ idx' = idx + 1 /\ pc' = "loop"
  /\ UNCHANGED <<url, doc, now, pending, calls, ret, prevRet, run, fnIn, fnOut, registry, store, refreshPromise, isExtracting, requests>>

\* variant: the result of the last extractor is returned when none succeeded
ReturnLastResult ==
  /\ pc = "loop" /\ idx > Len(extractors)
  /\ ret' = IF calls # <<>> /\ calls[Len(calls)].result # Thrown THEN calls[Len(calls)].result
            ELSE createEmptyResult(<<"n","o","n","e">>)
  /\ pc' = "done"
  /\ UNCHANGED <<url, doc, now, idx, pending, calls, prevRet, run, fnIn, fnOut, registry, store, refreshPromise, isExtracting, requests>>

\* all extractors failed: return createEmptyResult('none')
ReturnNone ==
  /\ pc = "loop" /\ idx > Len(extractors)
  /\ ret' = createEmptyResult(<<"n","o","n","e">>) /\ pc' = "done"
  /\ UNCHANGED <<url, doc, now, idx, pending, calls, prevRet, run, fnIn, fnOut, registry, store, refreshPromise, isExtracting, requests>>

\* the caller calls extractJobOffer again on the same url and document
Rerun ==
  /\ pc = "done" /\ run < MaxRuns
  /\ prevRet' = ret /\ run' = run + 1
  /\ pc' = "loop" /\ idx' = 1 /\ calls' = <<>> /\ pending' = NoResult
  /\ UNCHANGED <<url, doc, now, ret, fnIn, fnOut, registry, store, refreshPromise, isExtracting, requests>>

\* an hour passes between two calls
Tick ==
  /\ now < MaxClock /\ pc \in {"idle", "done"}
  /\ now' = now + 1
  /\ UNCHANGED <<url, doc, pc, idx, pending, calls, ret, prevRet, run, fnIn, fnOut, registry, store, refreshPromise, isExtracting, requests>>

Next == Start \/ Decline \/ Invoke \/ ReturnSuccess \/ TryNext \/ CatchFault \/ ReturnNone \/ Rerun \/ Tick

Spec == Init /\ [][Next]_vars

(***************************************************************************)
(* Properties of extractJobOffer                                           *)
(***************************************************************************)
\* result.success && result.offer
Succeeded(r) == r # Thrown /\ r.success /\ r.offer # NoOffer

\* the extractors that accept the url, in the order the loop meets them
candidates == SelectSeq(extractors, LAMBDA name : canHandle(name, url, doc))

\* the calls made so far are calls of the first candidates, in order, none of them but
\* possibly the last a success
CallsFollowCandidates ==
  /\ calls # <<>> => LET c == candidates
                     IN Len(calls) <= Len(c) /\ \A k \in 1..Len(calls) : calls[k].name = c[k]
  /\ \A k \in 1..(Len(calls) - 1) : ~Succeeded(calls[k].result)

\* C1: a successful outcome of extractJobOffer is, unmodified, the outcome of extract of the first
\* extractor, in the order linkedin, indeed, welcometothejungle, generic (descending priority,
\* registration order among equals, generic last), whose canHandle is true and whose extract
\* succeeded with an offer; the extractors called are exactly the candidates up to that one, so
\* none after it is called, and the offer holds the fields of that extractor alone (the result
\* awaited is extract of the candidate at that position, and it is returned as it is).
C1_FirstSuccessWins ==
  /\ extractors = <<LinkedInName, IndeedName, WttjName, GenericName>>
  /\ CallsFollowCandidates
  /\ pc = "await" =>
       /\ calls # <<>> /\ calls[Len(calls)].result = pending
       /\ pending = extract(candidates[Len(calls)], url, doc, now)
  /\ (pc = "done" /\ ret.success) =>
       /\ calls # <<>>
       /\ Succeeded(calls[Len(calls)].result)
       /\ ret = calls[Len(calls)].result
       /\ ret.extractorUsed = candidates[Len(calls)]

\* a run in which indeed failed, welcometothejungle succeeded and generic, not called, would have
\* succeeded too
C1_Witness ==
  /\ pc = "done" /\ ret.success /\ Len(calls) = 2
  /\ calls[1].name = IndeedName /\ calls[1].result # Thrown
  /\ ret.extractorUsed = WttjName
  /\ Succeeded(extract(GenericName, url, doc, now))

\* C2: extractJobOffer returns the name "none" only if extract of generic fails or throws on the
\* same url and document; whenever generic would succeed the outcome is a success that carries
\* the name of an extractor.
C2_RegistryFallback ==
  (/\ pc = "done"
   /\ \/ ret.extractorUsed = <<"n","o","n","e">>
      \/ ~ret.success
      \/ \A i \in 1..Len(extractors) : ret.extractorUsed # extractors[i])
  => ~Succeeded(extract(GenericName, url, doc, now))

\* linkedin accepted the url and failed, and the outcome is generic's
C2_Witness ==
  /\ pc = "done" /\ Len(calls) = 2
  /\ calls[1].name = LinkedInName /\ calls[1].result # Thrown /\ ~calls[1].result.success
  /\ ret.success /\ ret.extractorUsed = GenericName

\* what extractJobOffer hands back is an ExtractionResult
IsExtractionResult(r) == DOMAIN r = {"success", "offer", "confidence", "extractorUsed", "errors"}

\* every candidate has been called unless a call succeeded
AllCandidatesTried == (\E k \in 1..Len(calls) : Succeeded(calls[k].result)) \/ Len(calls) = Len(candidates)

C3_FaultsSkipped ==
  /\ CallsFollowCandidates
  /\ pc = "done" => IsExtractionResult(ret) /\ AllCandidatesTried

\* a started call can always take a step: the loop is at an extractor or past the last one, and
\* an awaited extract has thrown or yielded a result
C3_NotStuck ==
  /\ pc = "loop" => idx \in 1..(Len(extractors) + 1)
  /\ pc = "await" => idx \in 1..Len(extractors) /\ (pending = Thrown \/ IsExtractionResult(pending))

\* how far a call has come: twice the index of the loop, one more while extract is awaited
Position ==
  IF pc = "done" THEN 2 * Len(extractors) + 3
  ELSE 2 * idx + (IF pc = "await" THEN 1 ELSE 0)

\* every step of a started call moves it forward
C3_Advances == pc \in {"loop", "await"} => pc' \in {"loop", "await", "done"} /\ Position' > Position

\* C3: a fault thrown by extract of one extractor never aborts extractJobOffer: the extractor is
\* skipped, the remaining candidates are still called in order, and the call always completes
\* with an ExtractionResult (no state of a started call is stuck, every step moves the call
\* forward along the bounded list of extractors, and what it returns is an ExtractionResult).
C3_FaultNeverAborts == [](C3_FaultsSkipped /\ C3_NotStuck) /\ [][C3_Advances]_vars

\* a call threw and a later extractor gave the outcome
C3_Witness ==
  /\ pc = "done" /\ ret.success
  /\ \E k \in 1..(Len(calls) - 1) : calls[k].result = Thrown

\* C4: when no candidate succeeded, extractJobOffer returns success false, no offer, confidence 0,
\* the name "none" and a non-empty list of errors; a failed outcome never carries the name of an
\* extractor.
C4_CanonicalFailure ==
  pc = "done" =>
    /\ (\A k \in 1..Len(calls) : ~Succeeded(calls[k].result)) =>
         /\ ret.success = FALSE /\ ret.offer = NoOffer /\ ret.confidence = 0
         /\ ret.extractorUsed = <<"n","o","n","e">> /\ Len(ret.errors) > 0
    /\ ~ret.success =>
         /\ ret.extractorUsed = <<"n","o","n","e">>
         /\ \A i \in 1..Len(extractors) : ret.extractorUsed # extractors[i]

\* a run in which one extractor threw and another returned its own failure
C4_Witness ==
  /\ pc = "done" /\ ~ret.success
  /\ \E k \in 1..Len(calls) : calls[k].result = Thrown
  /\ \E k \in 1..Len(calls) : calls[k].result # Thrown /\ calls[k].result.extractorUsed = calls[k].name

WellFormed(r) ==
  /\ r.success => r.offer # NoOffer /\ r.confidence > 0
  /\ ~r.success => r.offer = NoOffer

\* C5: in every ExtractionResult produced by an extractor's extract or by extractJobOffer, success
\* implies an offer and a confidence above 0, and failure implies no offer.
C5_OutcomeWellFormed ==
  /\ \A k \in 1..Len(calls) : calls[k].result # Thrown => WellFormed(calls[k].result)
  /\ pc = "done" => WellFormed(ret)

\* generic succeeded on the weight of the title alone
C5_Witness ==
  /\ pc = "done" /\ ret.success /\ ret.extractorUsed = GenericName
  /\ ret.confidence = 25

\* C6: the outcome of extractJobOffer has a confidence between 0 and 1 (0 and 100 hundredths), and
\* it is a success exactly when it carries an offer whose title and description are non-empty.
C6_SuccessIffTitleAndDescription ==
  pc = "done" =>
    /\ ret.confidence \in 0..100
    /\ ret.success <=> (ret.offer # NoOffer /\ Truthy(ret.offer.title) /\ Truthy(ret.offer.description))

\* indeed read a heading that is only the badge and failed; the document title gave generic a title
C6_Witness ==
  /\ pc = "done" /\ ret.success /\ ret.extractorUsed = GenericName
  /\ \E k \in 1..Len(calls) : calls[k].name = IndeedName /\ calls[k].result # Thrown /\ ~calls[k].result.success
  /\ IndeedExtractTitle(doc) = <<>>
  /\ doc.scripts = <<>>

\* C7 as stated: two runs on the same url and document return identical outcomes, every field of
\* the offer included.
C7_Identical == (pc = "done" /\ run = MaxRuns) => ret = prevRet

\* the outcome without the fields read from the clock: capturedAt, and the publishedAt that
\* linkedin resolves from a relative date
Timeless(r) ==
  IF r.offer = NoOffer THEN r
  ELSE [r EXCEPT !.offer = [@ EXCEPT !.capturedAt = 0,
                                     !.publishedAt = IF r.extractorUsed = LinkedInName THEN NoDate ELSE @]]

\* C7: two runs on the same url and document return the same success, extractor name, confidence,
\* errors and offer fields, except capturedAt and the publishedAt linkedin resolves from "now".
C7_DeterministicUpToClock == (pc = "done" /\ run = MaxRuns) => Timeless(ret) = Timeless(prevRet)

\* two successful runs at different hours
C7_Witness ==
  /\ pc = "done" /\ run = MaxRuns /\ ret.success /\ prevRet.success
  /\ ret.offer.capturedAt # prevRet.offer.capturedAt

(***************************************************************************)
(* isJobPage and detectJobPageHeuristics (extractors/index.ts)             *)
(***************************************************************************)
jobSiteDomains ==
  << <<"l","i","n","k","e","d","i","n",".","c","o","m">>, <<"i","n","d","e","e","d",".","c","o","m">>, <<"i","n","d","e","e","d",".","f","r">>, <<"w","e","l","c","o","m","e","t","o","t","h","e","j","u","n","g","l","e",".","c","o","m">>, <<"g","l","a","s","s","d","o","o","r",".","c","o","m">>,
     <<"g","l","a","s","s","d","o","o","r",".","f","r">>, <<"m","o","n","s","t","e","r",".","f","r">>, <<"m","o","n","s","t","e","r",".","c","o","m">>, <<"a","p","e","c",".","f","r">>, <<"p","o","l","e","-","e","m","p","l","o","i",".","f","r">>,
     <<"f","r","a","n","c","e","t","r","a","v","a","i","l",".","f","r">>, <<"h","e","l","l","o","w","o","r","k",".","c","o","m">>, <<"c","a","d","r","e","m","p","l","o","i",".","f","r">>, <<"t","a","l","e","n","t",".","c","o","m">>, <<"j","o","b","t","e","a","s","e","r",".","c","o","m">> >>

\* d.replace('www.', ''): the first occurrence of "www." removed
withoutWww(d) ==
  LET at == {i \in 1..Len(d) : startsWith(SubSeq(d, i, Len(d)), <<"w","w","w",".">>)}
      cut(i) == SubSeq(d, 1, i - 1) \o SubSeq(d, i + 4, Len(d))
  IN IF at = {} THEN d ELSE cut(CHOOSE i \in at : \A j \in at : i <= j)

\* jobSiteDomains.some((d) => domain.includes(d.replace('www.', '')))
isKnownJobSite(u) ==
  \E i \in 1..Len(jobSiteDomains) : includes(getDomain(u), withoutWww(jobSiteDomains[i]))

pathIndicators == <<<<"/","j","o","b","s","/">>, <<"/","j","o","b","/">>, <<"/","o","f","f","r","e","/">>, <<"/","e","m","p","l","o","i","/">>, <<"/","c","a","r","e","e","r","/">>, <<"/","c","a","r","r","i","e","r","e","/">>>>

hasJobPath(u) == \E i \in 1..Len(pathIndicators) : includes(toLowerCase(u), pathIndicators[i])

\* s has prefix followed by one character of the class: the regular expression prefix[class]+
matchesPrefixThen(s, prefix, class) ==
  \E i \in 1..(Len(s) - Len(prefix)) :
    startsWith(SubSeq(s, i, Len(s)), prefix) /\ s[i + Len(prefix)] \in class

SlugChars == {LowerChars[i] : i \in 1..26} \cup Digits \cup {"-"}

\* urlPatterns.some((p) => p.test(url)): /\/jobs\/view\/\d+/, /\/job\/[a-z0-9-]+/i,
\* /\/offre\/[a-z0-9-]+/i, /viewjob/i
hasJobUrl(u) ==
  \/ matchesPrefixThen(u, <<"/","j","o","b","s","/","v","i","e","w","/">>, Digits)
  \/ matchesPrefixThen(toLowerCase(u), <<"/","j","o","b","/">>, SlugChars)
  \/ matchesPrefixThen(toLowerCase(u), <<"/","o","f","f","r","e","/">>, SlugChars)
  \/ includes(toLowerCase(u), <<"v","i","e","w","j","o","b">>)

urlKeywords ==
  <<<<"j","o","b">>, <<"c","a","r","e","e","r">>, <<"e","m","p","l","o","i">>, <<"o","f","f","r","e">>, <<"r","e","c","r","u","t","e","m","e","n","t">>, <<"h","i","r","i","n","g">>, <<"v","a","c","a","n","c","y">>, <<"p","o","s","i","t","i","o","n">>>>

titleKeywords ==
  <<<<"j","o","b">>, <<"c","a","r","e","e","r">>, <<"e","m","p","l","o","i">>, <<"p","o","s","t","e">>, <<"r","e","c","r","u","t","e","m","e","n","t">>, <<"h","i","r","i","n","g">>, <<"d","e","v","e","l","o","p","e","r">>, <<"e","n","g","i","n","e","e","r">>,
    <<"m","a","n","a","g","e","r">>>>

jobElementSelectors ==
  <<"[class*=\"job-description\"]", "[class*=\"job-title\"]", "[class*=\"apply\"]",
    "[id*=\"job-description\"]", "button[class*=\"apply\"]", "a[href*=\"apply\"]">>

\* the loop over the items of one script inside its try block: TRUE when it sets the score; a
\* null item, a null member of @graph met before a JobPosting, or an @graph that is not an array
\* throws, and the catch leaves the rest of the script unread
RECURSIVE itemsSetScore(_, _)
itemsSetScore(items, i) ==
  IF i > Len(items) THEN FALSE
  ELSE IF items[i].k = "null" THEN FALSE
  ELSE IF IsJobPosting(items[i]) THEN TRUE
  ELSE IF items[i].graph.k = "absent" THEN itemsSetScore(items, i + 1)
  ELSE IF items[i].graph.k = "obj" THEN FALSE
  ELSE LET g == items[i].graph.items
           stops == {j \in 1..Len(g) : g[j].k = "null" \/ IsJobPosting(g[j])}
       IN IF stops = {} THEN itemsSetScore(items, i + 1)
          ELSE g[CHOOSE j \in stops : \A h \in stops : j <= h].k # "null"

structuredDataScore(d) ==
  IF \E s \in 1..Len(d.scripts) : d.scripts[s].valid /\ itemsSetScore(d.scripts[s].items, 1) THEN 5 ELSE 0

urlScore(u) == Cardinality({i \in 1..Len(urlKeywords) : includes(toLowerCase(u), urlKeywords[i])})

contentScore(d) ==
  (IF \E i \in 1..Len(titleKeywords) : includes(toLowerCase(d.title), titleKeywords[i]) THEN 2 ELSE 0)
  + (IF \E i \in 1..Len(jobElementSelectors) : querySelectorAll(d, jobElementSelectors[i]) # <<>> THEN 2 ELSE 0)

totalScore(u, d) == urlScore(u) + contentScore(d) + structuredDataScore(d)

detectJobPageHeuristics(u, d) == totalScore(u, d) >= 3

JobPageUrls ==
  { <<"h","t","t","p","s",":","/","/","w","w","w",".","l","i","n","k","e","d","i","n",".","c","o","m","/","j","o","b","s","/","v","i","e","w","/","1","2","3">>,
    <<"h","t","t","p","s",":","/","/","w","w","w",".","l","i","n","k","e","d","i","n",".","c","o","m","/","f","e","e","d","/">>,
    <<"h","t","t","p","s",":","/","/","f","r",".","i","n","d","e","e","d",".","c","o","m","/","v","i","e","w","j","o","b","?","j","k","=","4","f","2">>,
    <<"h","t","t","p","s",":","/","/","w","w","w",".","a","p","e","c",".","f","r","/","O","f","f","r","e","/","d","a","t","a","-","a","n","a","l","y","s","t">>,
    <<"h","t","t","p","s",":","/","/","m","y","i","n","d","e","e","d",".","c","o","m","/","a","b","o","u","t">>,
    <<"h","t","t","p","s",":","/","/","t","a","l","e","n","t",".","c","o","m","p","u","t","i","n","g",".","e","x","a","m","p","l","e","/","t","e","a","m">>,
    <<"h","t","t","p","s",":","/","/","c","a","r","e","e","r","s",".","a","c","m","e",".","i","o","/","p","o","s","i","t","i","o","n","/","4","2">>,
    <<"h","t","t","p","s",":","/","/","a","c","m","e",".","i","o","/","h","i","r","i","n","g">>,
    <<"h","t","t","p","s",":","/","/","a","c","m","e",".","i","o","/","a","b","o","u","t">>,
    <<"a","c","m","e",".","i","o","/","j","o","b","s","/">> }

JobPageTitles == {<<>>, <<"A","b","o","u","t"," ","u","s">>, <<"S","e","n","i","o","r"," ","E","n","g","i","n","e","e","r"," ","-"," ","A","c","m","e">>}

JobPageElems == {<<>>, <<PageElement({"[class*=\"apply\"]", "button[class*=\"apply\"]"}, <<TextNode(<<"P","o","s","t","u","l","e","r">>)>>)>>}

JobPageScripts ==
  { <<>>,
    <<Script(TRUE, <<TitleOnlyLd>>)>>,
    <<Script(TRUE, <<LdObject(<<"W","e","b","S","i","t","e">>, NoGraph), TitleOnlyLd>>)>>,
    <<Script(TRUE, <<LdObject(Undefined, [k |-> "arr", items |-> <<LdObject(<<"O","r","g","a","n","i","z","a","t","i","o","n">>, NoGraph), TitleOnlyLd>>])>>)>>,
    <<Script(TRUE, <<LdObject(Undefined, [k |-> "arr", items |-> <<LdObject(<<"W","e","b","P","a","g","e">>, [k |-> "arr", items |-> <<TitleOnlyLd>>])>>])>>)>>,
    <<Script(TRUE, <<LdNull, TitleOnlyLd>>)>>,
    <<Script(FALSE, <<>>)>>,
    <<Script(FALSE, <<>>), Script(TRUE, <<LdObject(<<"W","e","b","S","i","t","e">>, NoGraph)>>)>> }

JobPageDocs ==
  {[title |-> t, elems |-> e, meta |-> NoMeta, scripts |-> s, throwing |-> {}] :
     t \in JobPageTitles, e \in JobPageElems, s \in JobPageScripts}

InitJobPage ==
  /\ url \in JobPageUrls /\ doc \in JobPageDocs
  /\ now = 0 /\ pc = "idle" /\ idx = 0 /\ pending = NoResult
  /\ calls = <<>> /\ ret = NoResult /\ prevRet = NoResult /\ run = 0
  /\ registry = Registry /\ IdleExtension
  /\ fnIn = <<>> /\ fnOut = "unused"

\* isJobPage on a known job site: the path and pattern check
IsJobPageKnownSite ==
  /\ pc = "idle" /\ isKnownJobSite(url)
  /\ ret' = [isJobPage |-> hasJobPath(url) \/ hasJobUrl(url)]
  /\ pc' = "done"
  /\ UNCHANGED <<url, doc, now, idx, pending, calls, prevRet, run, fnIn, fnOut, registry, store, refreshPromise, isExtracting, requests>>

\* isJobPage on any other site: return detectJobPageHeuristics(url, doc)
IsJobPageHeuristics ==
  /\ pc = "idle" /\ ~isKnownJobSite(url)
  /\ calls' = <<<<"d","e","t","e","c","t","J","o","b","P","a","g","e","H","e","u","r","i","s","t","i","c","s">>>>
  /\ ret' = [isJobPage |-> detectJobPageHeuristics(url, doc)]
  /\ pc' = "done"
  /\ UNCHANGED <<url, doc, now, idx, pending, prevRet, run, fnIn, fnOut, registry, store, refreshPromise, isExtracting, requests>>

NextJobPage == IsJobPageKnownSite \/ IsJobPageHeuristics

SpecJobPage == InitJobPage /\ [][NextJobPage]_vars

(***************************************************************************)
(* Properties of isJobPage                                                 *)
(***************************************************************************)
\* the registrable domain of a host name: its last two labels
registrableDomain(domain) ==
  LET dots == {i \in 1..Len(domain) : domain[i] = "."}
      before == {i \in dots : Cardinality({j \in dots : j > i}) = 1}
  IN IF before = {} THEN domain ELSE SubSeq(domain, (CHOOSE i \in before : TRUE) + 1, Len(domain))

OnAllowList(u) == \E i \in 1..Len(jobSiteDomains) : registrableDomain(getDomain(u)) = jobSiteDomains[i]

HeuristicsConsulted == calls # <<>>

\* C8: when the registrable domain of the url is on the list of job sites, isJobPage is true iff
\* the url has a known path segment or matches a job url pattern and the heuristic scorer is not
\* consulted; when it is not on the list, the result is that of the heuristic score alone.
C8_TwoTier ==
  pc = "done" =>
    IF OnAllowList(url)
      THEN ret.isJobPage = (hasJobPath(url) \/ hasJobUrl(url)) /\ ~HeuristicsConsulted
      ELSE ret.isJobPage = detectJobPageHeuristics(url, doc) /\ HeuristicsConsulted

\* a JobPosting is present in a script: directly, in an array, or one level inside @graph
JobPostingPresent(d) ==
  \E s \in 1..Len(d.scripts) : d.scripts[s].valid /\
    \E i \in 1..Len(d.scripts[s].items) :
      LET item == d.scripts[s].items[i] IN
      /\ item.k = "obj"
      /\ \/ IsJobPosting(item)
         \/ item.graph.k = "arr" /\ \E j \in 1..Len(item.graph.items) :
              item.graph.items[j].k = "obj" /\ IsJobPosting(item.graph.items[j])

StatedScore(u, d) ==
  Cardinality({i \in 1..Len(urlKeywords) : includes(toLowerCase(u), urlKeywords[i])})
  + (IF \E i \in 1..Len(titleKeywords) : includes(toLowerCase(d.title), titleKeywords[i]) THEN 2 ELSE 0)
  + (IF \E i \in 1..Len(jobElementSelectors) : querySelectorAll(d, jobElementSelectors[i]) # <<>> THEN 2 ELSE 0)
  + (IF JobPostingPresent(d) THEN 5 ELSE 0)

\* C9: on a domain outside the list, isJobPage is true iff the score is at least 3, the score
\* being the number of url keywords in the url, plus 2 if a title keyword is in the document
\* title, plus 2 if a job selector matches, plus 5 if a JSON-LD JobPosting is present directly,
\* in an array, or one level inside @graph.
C9_ScoreThreshold ==
  (pc = "done" /\ ~OnAllowList(url)) => (ret.isJobPage <=> StatedScore(url, doc) >= 3)

(***************************************************************************)
(* detectRemoteType applied to bounded texts                               *)
(***************************************************************************)
RemoteFragments ==
  { <<>>, <<"f","u","l","l"," ","r","e","m","o","t","e">>, <<"1","0","0","%"," ","R","e","m","o","t","e">>, <<"T","&#233;","l","&#233;","t","r","a","v","a","i","l"," ","c","o","m","p","l","e","t">>, <<"h","y","b","r","i","d">>, <<"H","y","b","r","i","d","e">>,
    <<"t","&#233;","l","&#233;","t","r","a","v","a","i","l"," ","p","a","r","t","i","e","l">>, <<"o","n","-","s","i","t","e">>, <<"s","u","r"," ","s","i","t","e">>, <<"P","r","&#233;","s","e","n","t","i","e","l">>, <<"1","0","0","%"," ","t","&#233;","l","&#233;","t","r","a","v","a","i","l">>,
    <<"r","e","m","o","t","e">>, <<"b","u","r","e","a","u"," ","&#224;"," ","P","a","r","i","s">> }

RemoteTexts == {a \o <<" ","-"," ">> \o b : a \in RemoteFragments, b \in RemoteFragments} \cup RemoteFragments

InitRemote == IdleCall /\ fnIn \in RemoteTexts /\ fnOut = "pending"

CallDetectRemoteType ==
  /\ fnOut = "pending"
  /\ fnOut' = detectRemoteType(fnIn)
  /\ UNCHANGED <<url, doc, now, pc, idx, pending, calls, ret, prevRet, run, fnIn, registry, store, refreshPromise, isExtracting, requests>>

NextRemote == CallDetectRemoteType

SpecRemote == InitRemote /\ [][NextRemote]_vars

\* the phrases of the three rules of detectRemoteType, in the order the rules are tried
remotePhrases == { <<"f","u","l","l"," ","r","e","m","o","t","e">>, <<"1","0","0","%"," ","r","e","m","o","t","e">>, <<"t","&#233;","l","&#233;","t","r","a","v","a","i","l"," ","c","o","m","p","l","e","t">> }

hybridPhrases == { <<"h","y","b","r","i","d">>, <<"h","y","b","r","i","d","e">>, <<"t","&#233;","l","&#233;","t","r","a","v","a","i","l"," ","p","a","r","t","i","e","l">> }

onsitePhrases == { <<"o","n","-","s","i","t","e">>, <<"s","u","r"," ","s","i","t","e">>, <<"p","r","&#233;","s","e","n","t","i","e","l">> }

containsAny(text, phrases) == \E p \in phrases : includes(toLowerCase(text), p)

\* C10: detectRemoteType answers "remote" for a text containing "100% télétravail", "onsite"
\* for a text containing "sur site" and no remote or hybrid phrase, "unknown" for a text
\* matching no rule, and when several rules match the first of remote, hybrid, onsite wins.
C10_RemoteRules ==
  fnOut # "pending" =>
    /\ includes(toLowerCase(fnIn), <<"1","0","0","%"," ","t","&#233;","l","&#233;","t","r","a","v","a","i","l">>) => fnOut = "remote"
    /\ containsAny(fnIn, remotePhrases) => fnOut = "remote"
    /\ (includes(toLowerCase(fnIn), <<"s","u","r"," ","s","i","t","e">>)
          /\ ~containsAny(fnIn, remotePhrases \cup hybridPhrases \cup {<<"1","0","0","%"," ","t","&#233;","l","&#233;","t","r","a","v","a","i","l">>}))
        => fnOut = "onsite"
    /\ (containsAny(fnIn, hybridPhrases)
          /\ ~containsAny(fnIn, remotePhrases \cup {<<"1","0","0","%"," ","t","&#233;","l","&#233;","t","r","a","v","a","i","l">>}))
        => fnOut = "hybrid"
    /\ (containsAny(fnIn, onsitePhrases)
          /\ ~containsAny(fnIn, remotePhrases \cup hybridPhrases \cup {<<"1","0","0","%"," ","t","&#233;","l","&#233;","t","r","a","v","a","i","l">>}))
        => fnOut = "onsite"
    /\ ~containsAny(fnIn, remotePhrases \cup hybridPhrases \cup onsitePhrases \cup {<<"1","0","0","%"," ","t","&#233;","l","&#233;","t","r","a","v","a","i","l">>})
        => fnOut = "unknown"

(***************************************************************************)
(* parseSalary applied to bounded texts                                    *)
(***************************************************************************)
SalaryAmounts == { <<"4","5">>, <<"4","5","k">>, <<"4","5","K">>, <<"8","0","0">>, <<"3","0","0","0">>, <<"1","2","0","0","k">> }

SalaryCurrencies == { <<"&#8364;">>, <<"$">>, <<" ","&#163;">> }

SalarySuffixes == { <<>>, <<"/","m","o","i","s">>, <<" ","p","a","r"," ","j","o","u","r">>, <<"/","h">>, <<" ","b","r","u","t","/","a","n">>, <<" ","+"," ","t","i","c","k","e","t","s">> }

\* one amount, a currency symbol and what follows
SingleSalaryTexts == {a \o c \o s : a \in SalaryAmounts, c \in SalaryCurrencies, s \in SalarySuffixes}

\* two amounts around a separator, a currency symbol and what follows
RangeSalaryTexts ==
  {a \o sep \o b \o <<"&#8364;">> \o s :
     a \in { <<"4","5">>, <<"4","5","k">>, <<"3","0","0","0">> }, sep \in { <<"-">>, <<" ","&#8211;"," ">>, <<" ","&#224;"," ">> },
     b \in { <<"5","5">>, <<"5","5","k">>, <<"4","0","0","0">> }, s \in { <<>>, <<"/","m","o","i","s">>, <<" ","+"," ","t","i","c","k","e","t","s">> }}

SalaryTexts == SingleSalaryTexts \cup RangeSalaryTexts \cup { <<>>, <<"s","e","l","o","n"," ","p","r","o","f","i","l">>, <<"4","5","k">> }

\* the result slot of a call of a pure function: nothing yet, or the value returned
Pending == [pending |-> TRUE]

Returned(v) == [value |-> v]

InitSalary == IdleCall /\ fnIn \in SalaryTexts /\ fnOut = Pending

CallParseSalary ==
  /\ fnOut = Pending
  /\ fnOut' = Returned(parseSalary(fnIn))
  /\ UNCHANGED <<url, doc, now, pc, idx, pending, calls, ret, prevRet, run, fnIn, registry, store, refreshPromise, isExtracting, requests>>

NextSalary == CallParseSalary

SpecSalary == InitSalary /\ [][NextSalary]_vars

\* the number a text starts with, and whether the letter k follows it directly
leadingNumber(text) == parseInt(SubSeq(text, 1, digitsEnd(text, 1)))

hasKSuffix(text) ==
  digitsEnd(text, 1) < Len(text) /\ text[digitsEnd(text, 1) + 1] \in {"k", "K"}

\* the period the substring rules give for a text
statedPeriod(text) ==
  IF includes(toLowerCase(text), <<"/","h">>) \/ includes(toLowerCase(text), <<"h","e","u","r","e">>) THEN "hour"
  ELSE IF includes(toLowerCase(text), <<"/","j">>) \/ includes(toLowerCase(text), <<"j","o","u","r">>) THEN "day"
  ELSE IF includes(toLowerCase(text), <<"/","m">>) \/ includes(toLowerCase(text), <<"m","o","i","s">>) THEN "month"
  ELSE "year"

\* C11: for a single-value text (a number, an optional k, a currency symbol, no range) parseSalary
\* returns min = max = the parsed value and the period the substring rules infer from the text
\* (/h or heure: hour, /j or jour: day, /m or mois: month, otherwise year).
C11_SingleValuePeriod ==
  (fnOut # Pending /\ fnIn \in SingleSalaryTexts) =>
    /\ fnOut.value # NoSalary
    /\ fnOut.value.min = fnOut.value.max
    /\ fnOut.value.period = statedPeriod(fnIn)

\* C12: parseSalary multiplies a parsed number by 1000 exactly when it is below 1000 and carries
\* a k suffix; a number without the suffix, or of 1000 or more, is returned unchanged whatever
\* other letters the text contains.
C12_KiloSuffix ==
  (fnOut # Pending /\ fnIn \in SingleSalaryTexts) =>
    /\ fnOut.value # NoSalary
    /\ fnOut.value.min = IF leadingNumber(fnIn) < 1000 /\ hasKSuffix(fnIn)
                     THEN leadingNumber(fnIn) * 1000 ELSE leadingNumber(fnIn)

(***************************************************************************)
(* htmlToMarkdown applied to bounded markup                                *)
(***************************************************************************)
PlainTexts == { <<"T","i","t","l","e">>, <<"x">>, <<"S","e","n","i","o","r"," ","D","e","v"," ","2">> }

HeadingInputs == {<<Element(h, <<TextNode(t)>>)>> : h \in {"h1", "h2", "h3", "h4", "h5", "h6"}, t \in PlainTexts}

BoldInputs == {<<Element(b, <<TextNode(t)>>)>> : b \in {"strong", "b"}, t \in PlainTexts}

\* the li children of the lists: plain items, items in paragraphs, white space between the items,
\* an item that holds a nested list, and ten items
ListBodies ==
  { <<Item(<<"a">>)>>,
    <<Item(<<"a">>), Item(<<"b">>)>>,
    <<Item(<<"a">>), Item(<<"b">>), Item(<<"S","e","n","i","o","r"," ","D","e","v"," ","2">>)>>,
    <<TextNode(<<"\n"," "," ">>), Item(<<"a">>), TextNode(<<"\n"," "," ">>), Item(<<"b">>), TextNode(<<"\n">>)>>,
    <<Element("li", <<Para(<<"a">>)>>), Element("li", <<Para(<<"b">>)>>)>>,
    <<Element("li", <<TextNode(<<"a">>), Element("ul", <<Item(<<"x">>), Item(<<"y">>)>>)>>), Item(<<"b">>)>>,
    [i \in 1..10 |-> Item(<<"a">>)] }

ListInputs == {<<Element(l, body)>> : l \in {"ul", "ol"}, body \in ListBodies}

Hrefs ==
  { <<"h","t","t","p","s",":","/","/","e","x","a","m","p","l","e",".","c","o","m","/","j","o","b","s","/","1">>, <<"/","j","o","b","s","/","1">>, <<"m","a","i","l","t","o",":","j","o","b","s","@","e","x","a","m","p","l","e",".","c","o","m">>, <<"#","a","p","p","l","y">>,
    <<"j","a","v","a","s","c","r","i","p","t",":","a","l","e","r","t","(","1",")">>, <<"J","a","v","a","S","c","r","i","p","t",":","a","l","e","r","t","(","1",")">>, <<" ","j","a","v","a","s","c","r","i","p","t",":","a","l","e","r","t","(","1",")">>, <<"J","A","V","A","S","C","R","I","P","T",":","v","o","i","d","(","0",")">> }

AnchorInputs ==
  {<<AnchorElement(h, <<TextNode(t)>>)>> : h \in Hrefs, t \in { <<"A","p","p","l","y">>, <<"x">> }}
    \cup {<<AnchorElement(h, <<TextNode(<<"A","p","p","l","y">>)>>)>> : h \in {<<>>, Undefined}}

\* paragraphs, containers and line breaks with and without white space between them
SpacedInputs ==
  { <<Para(<<"a">>), Para(<<"b">>)>>,
    <<Para(<<"a">>), TextNode(<<" ">>), Para(<<"b">>)>>,
    <<Para(<<"a">>), TextNode(<<"\n"," "," ">>), Para(<<"b">>)>>,
    <<Element("div", <<Para(<<"a">>)>>), Element("div", <<Para(<<"b">>)>>)>>,
    <<Element("div", <<TextNode(<<"a">>), Element("br", <<>>), TextNode(<<" ">>), Element("br", <<>>), Element("br", <<>>), TextNode(<<"b">>)>>)>>,
    <<Element("h2", <<TextNode(<<"T","i","t","l","e">>)>>), Element("br", <<>>), Element("br", <<>>), Element("br", <<>>), Para(<<"a">>)>>,
    <<TextNode(<<"a">>), Element("br", <<>>), Element("br", <<>>), Element("br", <<>>), Element("br", <<>>), TextNode(<<"b">>)>> }

RenderInputs == HeadingInputs \cup BoldInputs \cup ListInputs \cup AnchorInputs \cup SpacedInputs \cup {<<>>}

InitRender == IdleCall /\ fnIn \in RenderInputs /\ fnOut = Pending

CallHtmlToMarkdown ==
  /\ fnOut = Pending
  /\ fnOut' = Returned(htmlToMarkdown(fnIn))
  /\ UNCHANGED <<url, doc, now, pc, idx, pending, calls, ret, prevRet, run, fnIn, registry, store, refreshPromise, isExtracting, requests>>

NextRender == CallHtmlToMarkdown

SpecRender == InitRender /\ [][NextRender]_vars

\* the prefix the mapping gives a heading tag
statedHashes(tag) ==
  CASE tag = "h1" -> <<"#">> [] tag = "h2" -> <<"#","#">> [] tag = "h3" -> <<"#","#","#">>
    [] tag = "h4" -> <<"#","#","#","#">> [] tag = "h5" -> <<"#","#","#","#","#">> [] tag = "h6" -> <<"#","#","#","#","#","#">>

\* the li children of a list element, and the text an li starts with
topItems(list) == SelectSeq(list.kids, LAMBDA k : k.tag = "li")

firstText(li) == IF li.kids[1].tag = "#text" THEN li.kids[1].text ELSE li.kids[1].kids[1].text

\* the lines the mapping gives the top-level items of a list: "- " or "i. " and the text
statedItemLines(list) ==
  LET items == topItems(list)
  IN [i \in 1..Len(items) |->
        (IF list.tag = "ul" THEN <<"-">> ELSE NumberToString(i) \o <<".">>) \o <<" ">> \o firstText(items[i])]

\* the lines of a rendering that are not continuation lines of a nested list
topLines(markdown) == SelectSeq(splitLines(markdown), LAMBDA l : l = <<>> \/ l[1] # " ")

\* C13: children are rendered first and the wrapper of the tag is put around them: a heading of
\* level n becomes n '#' characters, a space and its text; strong and b become **text**; the
\* top-level li of an unordered list become lines prefixed "- " and the i-th top-level li of an
\* ordered list a line prefixed "i. ", the lines joined by a single newline (a nested list gives
\* indented continuation lines below its item).
C13_TagMapping ==
  fnOut # Pending =>
    /\ fnIn \in HeadingInputs =>
         fnOut.value = statedHashes(fnIn[1].tag) \o <<" ">> \o fnIn[1].kids[1].text
    /\ fnIn \in BoldInputs => fnOut.value = <<"*","*">> \o fnIn[1].kids[1].text \o <<"*","*">>
    /\ fnIn \in ListInputs =>
         /\ topLines(fnOut.value) = statedItemLines(fnIn[1])
         /\ ~includes(fnOut.value, <<"\n","\n">>)
         /\ (\A i \in 1..Len(topItems(fnIn[1])) : Len(topItems(fnIn[1])[i].kids) = 1)
              => fnOut.value = join(statedItemLines(fnIn[1]), NL)

\* an ordered list whose first item holds a nested unordered list
C13_Witness ==
  /\ fnIn = <<Element("ol", <<Element("li", <<TextNode(<<"a">>), Element("ul", <<Item(<<"x">>), Item(<<"y">>)>>)>>), Item(<<"b">>)>>)>>
  /\ fnOut = Returned(<<"1","."," ","a","\n"," "," ","-"," ","x","\n"," "," ","-"," ","y","\n","2","."," ","b">>)

(***************************************************************************)
(* A series of render and extraction calls: calls is the log of what each  *)
(* call was given and what it returned                                     *)
(***************************************************************************)
MaxRenderCalls == 3

SeriesMarkup ==
  { <<Element("h1", <<TextNode(<<"T","i","t","l","e">>)>>)>>,
    <<Element("ol", <<Item(<<"a">>), Item(<<"b">>)>>)>>,
    <<Element("ul", <<Item(<<"a">>), Item(<<"b">>)>>)>>,
    <<Para(<<"a">>), TextNode(<<" ">>), Para(<<"b">>)>>,
    <<Element("p", <<TextNode(<<"p","a","y"," ">>), Element("strong", <<TextNode(<<"5","0">>)>>), TextNode(<<" ","*"," ","1","2">>)>>)>>,
    <<AnchorElement(<<"/","j","o","b","s","/","1">>, <<TextNode(<<"A","p","p","l","y">>)>>)>>,
    <<Element("table", <<Element("tr", <<Element("td", <<TextNode(<<"a","|","b">>)>>)>>)>>)>>,
    <<TextNode(<<"&#8226;"," ","a","\n","&#8226;"," ","b">>)>>,
    LongDescription,
    <<>> }

SeriesDocs == { Page(<<"D","e","v">>, LinkedInPage.elems, NoMeta), Page(<<"D","e","v">>, IndeedPage.elems, NoMeta) }

InitSeries == IdleCall /\ fnIn = <<>> /\ fnOut = Pending

\* htmlToMarkdown(html)
RenderCall ==
  /\ Len(calls) < MaxRenderCalls
  /\ \E html \in SeriesMarkup :
       calls' = Append(calls, [kind |-> "render", input |-> html, output |-> htmlToMarkdown(html)])
  /\ UNCHANGED <<url, doc, now, pc, idx, pending, ret, prevRet, run, fnIn, fnOut, registry, store, refreshPromise, isExtracting, requests>>

\* the description step of an extractor, which renders the element it finds
DescriptionCall ==
  /\ Len(calls) < MaxRenderCalls
  /\ \E d \in SeriesDocs :
       calls' = Append(calls, [kind |-> "extract", input |-> d,
                               output |-> Nullish(LinkedInExtractDescription(d), IndeedExtractDescription(d))])
  /\ UNCHANGED <<url, doc, now, pc, idx, pending, ret, prevRet, run, fnIn, fnOut, registry, store, refreshPromise, isExtracting, requests>>

NextSeries == RenderCall \/ DescriptionCall

SpecSeries == InitSeries /\ [][NextSeries]_vars

usesScriptScheme(href) ==
  Truthy(href) /\ startsWith(toLowerCase(Filter(href, LAMBDA i : \E k \in 1..i : href[k] \notin WhiteSpace)),
                             <<"j","a","v","a","s","c","r","i","p","t",":">>)

\* C15: the renderer never emits a Markdown link to a script-executing target: an anchor whose
\* href uses such a scheme, in any letter case or after leading white space, is rendered as its
\* text alone, and an anchor with any other non-empty href as [text](href).
C15_NoScriptLinks ==
  (fnOut # Pending /\ fnIn \in AnchorInputs) =>
    IF usesScriptScheme(fnIn[1].href) THEN fnOut.value = fnIn[1].kids[1].text
    ELSE Truthy(fnIn[1].href) =>
           fnOut.value = <<"[">> \o fnIn[1].kids[1].text \o <<"]","(">> \o fnIn[1].href \o <<")">>

\* C20: after the cleanup pass the output of htmlToMarkdown never contains three or more
\* consecutive newline characters, whatever the markup, markup that gives white-space-only lines
\* between blank lines included.
C20_NoTripleNewline ==
  fnOut # Pending => ~includes(fnOut.value, <<"\n","\n","\n">>)

(***************************************************************************)
(* Two invocations of extractJobOffer in flight at once.  url, doc, pc,    *)
(* idx, pending, calls and ret hold one entry per invocation; an           *)
(* invocation runs from one await to the next while the other is           *)
(* suspended; registry and the clock are what the two share.               *)
(***************************************************************************)
Tree(p, s, t) == [title |-> p.title, elems |-> p.elems, meta |-> p.meta, scripts |-> s, throwing |-> t]

Invocation(u, d) == [url |-> u, doc |-> d]

Invocations ==
  { Invocation(<<"h","t","t","p","s",":","/","/","w","w","w",".","l","i","n","k","e","d","i","n",".","c","o","m","/","j","o","b","s","/","v","i","e","w","/","1","2","3">>, Tree(LinkedInPage, <<>>, {})),
    Invocation(<<"h","t","t","p","s",":","/","/","w","w","w",".","l","i","n","k","e","d","i","n",".","c","o","m","/","j","o","b","s","/","v","i","e","w","/","1","2","3">>,
               Tree(MetaPage, <<Script(TRUE, <<JobPostingLd>>)>>, {LinkedInName, IndeedName, WttjName})),
    Invocation(<<"h","t","t","p","s",":","/","/","j","o","b","s",".","i","n","d","e","e","d",".","w","e","l","c","o","m","e","t","o","t","h","e","j","u","n","g","l","e",".","c","o","m","/","f","r","/","j","o","b","s","/","d","e","v">>, Tree(IndeedBadgePage, <<>>, {})),
    Invocation(<<"h","t","t","p","s",":","/","/","w","w","w",".","w","e","l","c","o","m","e","t","o","t","h","e","j","u","n","g","l","e",".","c","o","m","/","f","r","/","c","o","m","p","a","n","i","e","s","/","a","c","m","e","/","j","o","b","s","/","d","e","v">>, Tree(WttjPage, <<>>, {})),
    Invocation(<<"h","t","t","p","s",":","/","/","c","a","r","e","e","r","s",".","a","c","m","e",".","i","o","/","p","o","s","i","t","i","o","n","/","4","2">>, Tree(EmptyPage, <<>>, {})),
    Invocation(<<"h","t","t","p","s",":","/","/","c","a","r","e","e","r","s",".","a","c","m","e",".","i","o","/","p","o","s","i","t","i","o","n","/","4","2">>, Tree(MetaPage, <<Script(TRUE, <<ArrayTypeLd>>)>>, {})) }

InitConcurrent ==
  /\ \E a, b \in Invocations : a.doc # b.doc /\ url = <<a.url, b.url>> /\ doc = <<a.doc, b.doc>>
  /\ now = 0 /\ pc = <<"loop", "loop">> /\ idx = <<1, 1>>
  /\ pending = <<NoResult, NoResult>> /\ calls = <<<<>>, <<>>>> /\ ret = <<NoResult, NoResult>>
  /\ prevRet = NoResult /\ run = 2 /\ fnIn = <<>> /\ fnOut = "unused"
  /\ registry = Registry /\ IdleExtension

\* a loop position kept in one variable of the module, which both invocations read
sharedLoopIndex(k) == idx[1]

\* the position of invocation k in its for...of loop over extractors: a local of the call
loopIndex(k) == idx[k]

\* extractor.canHandle(url, doc) is false: the loop of invocation k goes on
ConcurrentDecline(k) ==
  /\ pc[k] = "loop" /\ loopIndex(k) <= Len(registry)
  /\ ~canHandle(registry[loopIndex(k)].name, url[k], doc[k])
  /\ idx' = [idx EXCEPT ![k] = @ + 1]
  /\ UNCHANGED <<url, doc, now, pc, pending, calls, ret, prevRet, run, fnIn, fnOut, registry, store, refreshPromise, isExtracting, requests>>

\* invocation k calls extractor.extract(url, doc) and is suspended at the await
ConcurrentInvoke(k) ==
  /\ pc[k] = "loop" /\ loopIndex(k) <= Len(registry)
  /\ canHandle(registry[loopIndex(k)].name, url[k], doc[k])
  /\ pending' = [pending EXCEPT ![k] = extract(registry[loopIndex(k)].name, url[k], doc[k], now)]
  /\ calls' = [calls EXCEPT ![k] = Append(@, [name |-> registry[loopIndex(k)].name, clock |-> now,
                                                result |-> pending'[k]])]
  /\ pc' = [pc EXCEPT ![k] = "await"]
  /\ UNCHANGED <<url, doc, now, idx, ret, prevRet, run, fnIn, fnOut, registry, store, refreshPromise, isExtracting, requests>>

\* invocation k resumes with a success and returns it
ConcurrentReturnSuccess(k) ==
  /\ pc[k] = "await" /\ Succeeded(pending[k])
  /\ ret' = [ret EXCEPT ![k] = pending[k]]
  /\ pc' = [pc EXCEPT ![k] = "done"]
  /\ UNCHANGED <<url, doc, now, idx, pending, calls, prevRet, run, fnIn, fnOut, registry, store, refreshPromise, isExtracting, requests>>

\* invocation k resumes with a failure or a fault and goes on to the next extractor
ConcurrentTryNext(k) ==
  /\ pc[k] = "await" /\ ~Succeeded(pending[k])
  /\ idx' = [idx EXCEPT ![k] = @ + 1]
  /\ pc' = [pc EXCEPT ![k] = "loop"]
  /\ UNCHANGED <<url, doc, now, pending, calls, ret, prevRet, run, fnIn, fnOut, registry, store, refreshPromise, isExtracting, requests>>

\* the loop of invocation k is over: createEmptyResult('none')
ConcurrentReturnNone(k) ==
  /\ pc[k] = "loop" /\ loopIndex(k) > Len(registry)
  /\ ret' = [ret EXCEPT ![k] = createEmptyResult(<<"n","o","n","e">>)]
  /\ pc' = [pc EXCEPT ![k] = "done"]
  /\ UNCHANGED <<url, doc, now, idx, pending, calls, prevRet, run, fnIn, fnOut, registry, store, refreshPromise, isExtracting, requests>>

\* an hour passes while the invocations are in flight
ConcurrentTick ==
  /\ now < MaxClock /\ \E k \in 1..2 : pc[k] # "done"
  /\ now' = now + 1
  /\ UNCHANGED <<url, doc, pc, idx, pending, calls, ret, prevRet, run, fnIn, fnOut, registry, store, refreshPromise, isExtracting, requests>>

NextConcurrent ==
  \/ \E k \in 1..2 : ConcurrentDecline(k)
  \/ \E k \in 1..2 : ConcurrentInvoke(k)
  \/ \E k \in 1..2 : ConcurrentReturnSuccess(k)
  \/ \E k \in 1..2 : ConcurrentTryNext(k)
  \/ \E k \in 1..2 : ConcurrentReturnNone(k)
  \/ ConcurrentTick

SpecConcurrent == InitConcurrent /\ [][NextConcurrent]_vars

\* the extractors that accept the url of invocation k, in the order of the module
own(k) == SelectSeq(extractors, LAMBDA name : canHandle(name, url[k], doc[k]))

\* what invocation k has done is what a call alone on its url and tree does: it stops at the
\* first success and returns it as it is, or returns the result "none" once every extractor that
\* accepts its url has been called
RunsAsAlone(k) ==
  /\ \A j \in 1..(Len(calls[k]) - 1) : ~Succeeded(calls[k][j].result)
  /\ pc[k] = "await" => calls[k] # <<>> /\ pending[k] = calls[k][Len(calls[k])].result
  /\ pc[k] = "done" =>
       IF calls[k] # <<>> /\ Succeeded(calls[k][Len(calls[k])].result)
         THEN ret[k] = calls[k][Len(calls[k])].result
         ELSE Len(calls[k]) = Len(own(k)) /\ ret[k] = createEmptyResult(<<"n","o","n","e">>)

\* a call made by invocation k is the call of the next extractor that accepts its url, and what
\* it awaits is extract of that extractor on its own url and tree at the time of the call,
\* whatever the other invocation has done; no other step adds a call
AwaitsOwnExtract(k, candidates_k) ==
  IF pc[k] = "loop" /\ pc'[k] = "await"
    THEN /\ Len(calls[k]) < Len(candidates_k)
         /\ calls'[k] = Append(calls[k], [name |-> candidates_k[Len(calls[k]) + 1], clock |-> now,
                                          result |-> pending'[k]])
         /\ pending'[k] = extract(candidates_k[Len(calls[k]) + 1], url[k], doc[k], now)
    ELSE calls'[k] = calls[k]

\* C16: two invocations of extractJobOffer that interleave at their awaits do not interfere: each
\* returns the outcome it returns when run alone, and the order of the extractors and the name,
\* domains and priority of each stay as they were when the module was loaded.
C16_NoInterference ==
  /\ [](registry = Registry /\ \A k \in 1..2 : RunsAsAlone(k))
  /\ [][\A k \in 1..2 : AwaitsOwnExtract(k, own(k))]_vars

\* the second invocation's linkedin call threw at hour 0, the first invocation's call succeeded at
\* hour 1, and the second invocation went on to generic at hour 2
C16_Witness ==
  /\ pc = <<"done", "done">> /\ doc[1] # doc[2]
  /\ ret[1].success /\ ret[1].extractorUsed = LinkedInName /\ calls[1][1].clock = 1
  /\ Len(calls[2]) = 2 /\ calls[2][1].result = Thrown /\ calls[2][1].clock = 0
  /\ calls[2][2].clock = 2 /\ ret[2].success /\ ret[2].extractorUsed = GenericName

(***************************************************************************)
(* extractDescription of the three site extractors, called on pages whose  *)
(* elements are description subtrees: one matching the first selector of   *)
(* the cascade and one matching a later selector, each with a rendering of *)
(* a chosen length.                                                        *)
(***************************************************************************)
DescriptionLengths == {0, 20, 99, 100, 101}

\* a text of n characters in words of five letters
Filler(n, letter) == [i \in 1..n |-> IF i % 6 = 0 /\ i < n THEN " " ELSE letter]

FirstSelectors(name) ==
  CASE name = LinkedInName -> {".show-more-less-html__markup"}
    [] name = IndeedName -> {"#jobDescriptionText"}
    [] name = WttjName -> {"[data-testid=\"job-section-description\"]", "[data-testid^=\"job-section-\"]"}

LaterSelectors(name) ==
  CASE name = LinkedInName -> {".description__text"}
    [] name = IndeedName -> {".jobsearch-jobDescriptionText"}
    [] name = WttjName -> {"article"}

\* the page: an element is left out when its length is 0
DescriptionPage(name, n1, n2) ==
  Page(<<"J","o","b">>,
       (IF n1 = 0 THEN <<>> ELSE <<PageElement(FirstSelectors(name), <<Para(Filler(n1, "a"))>>)>>)
         \o (IF n2 = 0 THEN <<>> ELSE <<PageElement(LaterSelectors(name), <<Para(Filler(n2, "b"))>>)>>),
       NoMeta)

DescriptionInputs ==
  { [strategy |-> name, doc |-> DescriptionPage(name, n1, n2)] :
      name \in {LinkedInName, IndeedName, WttjName}, n1 \in DescriptionLengths, n2 \in DescriptionLengths }

InitDescription == IdleCall /\ fnIn \in DescriptionInputs /\ fnOut = Pending

CallExtractDescription ==
  /\ fnOut = Pending
  /\ fnOut' = Returned(CASE fnIn.strategy = LinkedInName -> LinkedInExtractDescription(fnIn.doc)
                         [] fnIn.strategy = IndeedName -> IndeedExtractDescription(fnIn.doc)
                         [] fnIn.strategy = WttjName -> WttjExtractDescription(fnIn.doc))
  /\ UNCHANGED <<url, doc, now, pc, idx, pending, calls, ret, prevRet, run, fnIn, registry, store, refreshPromise, isExtracting, requests>>

NextDescription == CallExtractDescription

SpecDescription == InitDescription /\ [][NextDescription]_vars

\* the renderings of the matched subtrees of a page, in cascade order
renderings(d) == [k \in 1..Len(d.elems) |-> htmlToMarkdown(innerHTML(d.elems[k]))]

\* the description the rule gives: the first rendering of at least 100 characters, absent when there is none
statedDescription(rendered) ==
  LET ok == {k \in 1..Len(rendered) : Len(rendered[k]) >= 100}
  IN IF ok = {} THEN Undefined ELSE rendered[CHOOSE k \in ok : \A h \in ok : k <= h]

\* C17: in the description cascade of the LinkedIn, Indeed and WelcomeToTheJungle extractors a
\* matched subtree's rendering is accepted iff it has at least 100 characters: the description is
\* the first rendering in cascade order of at least 100 characters, a shorter one is passed over
\* for the next selector, and the description is absent only when no rendering is acceptable
C17_DescriptionThreshold ==
  fnOut # Pending => fnOut.value = statedDescription(renderings(fnIn.doc))

(***************************************************************************)
(* canHandle of the three site extractors, each called once on one url.    *)
(* fnOut holds what each has returned so far.                              *)
(***************************************************************************)
CanHandleHosts ==
  { <<"w","w","w",".","l","i","n","k","e","d","i","n",".","c","o","m">>, <<"l","i","n","k","e","d","i","n",".","c","o","m">>, <<"f","r",".","l","i","n","k","e","d","i","n",".","c","o","m">>,
    <<"w","w","w",".","i","n","d","e","e","d",".","c","o","m">>, <<"i","n","d","e","e","d",".","f","r">>, <<"f","r",".","i","n","d","e","e","d",".","c","o","m">>, <<"w","w","w",".","i","n","d","e","e","d","j","o","b","s",".","c","o","m">>,
    <<"w","w","w",".","w","e","l","c","o","m","e","t","o","t","h","e","j","u","n","g","l","e",".","c","o","m">>, <<"w","e","l","c","o","m","e","t","o","t","h","e","j","u","n","g","l","e",".","c","o","m">>, <<"j","o","b","s",".","i","n","d","e","e","d",".","w","e","l","c","o","m","e","t","o","t","h","e","j","u","n","g","l","e",".","c","o","m">>,
    <<"c","a","r","e","e","r","s",".","a","c","m","e",".","i","o">> }

CanHandlePaths == { <<"/","j","o","b","s","/","v","i","e","w","/","1","2","3">>, <<"/","v","i","e","w","j","o","b","?","j","k","=","4","f","2">>, <<"/">> }

CanHandleUrls == { <<"h","t","t","p","s",":","/","/">> \o h \o p : h \in CanHandleHosts, p \in CanHandlePaths }

InitCanHandle ==
  /\ IdleCall /\ fnIn \in CanHandleUrls
  /\ fnOut = [linkedin |-> Pending, indeed |-> Pending, welcometothejungle |-> Pending]

CallLinkedInCanHandle ==
  /\ fnOut.linkedin = Pending
  /\ fnOut' = [fnOut EXCEPT !.linkedin = Returned(LinkedInCanHandle(fnIn, NoDoc))]
  /\ UNCHANGED <<url, doc, now, pc, idx, pending, calls, ret, prevRet, run, fnIn, registry, store, refreshPromise, isExtracting, requests>>

CallIndeedCanHandle ==
  /\ fnOut.indeed = Pending
  /\ fnOut' = [fnOut EXCEPT !.indeed = Returned(IndeedCanHandle(fnIn, NoDoc))]
  /\ UNCHANGED <<url, doc, now, pc, idx, pending, calls, ret, prevRet, run, fnIn, registry, store, refreshPromise, isExtracting, requests>>

CallWttjCanHandle ==
  /\ fnOut.welcometothejungle = Pending
  /\ fnOut' = [fnOut EXCEPT !.welcometothejungle = Returned(WttjCanHandle(fnIn, NoDoc))]
  /\ UNCHANGED <<url, doc, now, pc, idx, pending, calls, ret, prevRet, run, fnIn, registry, store, refreshPromise, isExtracting, requests>>

NextCanHandle == CallLinkedInCanHandle \/ CallIndeedCanHandle \/ CallWttjCanHandle

SpecCanHandle == InitCanHandle /\ [][NextCanHandle]_vars

\* the host of u without a leading "www." is one of the listed domains
hostInDomains(u, list) == \E i \in 1..Len(list) : list[i] = getDomain(u)

\* C18: canHandle of a site extractor is a domain membership test: it is true exactly for the urls
\* whose host, a leading "www." ignored, is one of the extractor's domains (for LinkedIn with
\* "/jobs/" in the url as well), false for every host outside the list, and so at most one of
\* the three site extractors claims a url
C18_DomainMembership ==
  /\ fnOut.linkedin # Pending =>
       fnOut.linkedin.value = (hostInDomains(fnIn, LinkedInDomains) /\ includes(fnIn, <<"/","j","o","b","s","/">>))
  /\ fnOut.indeed # Pending => fnOut.indeed.value = hostInDomains(fnIn, IndeedDomains)
  /\ fnOut.welcometothejungle # Pending => fnOut.welcometothejungle.value = hostInDomains(fnIn, WttjDomains)
  /\ Cardinality({f \in {"linkedin", "indeed", "welcometothejungle"} : fnOut[f] = Returned(TRUE)}) <= 1

(***************************************************************************)
(* normalizeContractType called on employment types as a JobPosting gives  *)
(* them: schema.org values and French labels, in lower case, in capitals   *)
(* and after the word "Contrat".                                           *)
(***************************************************************************)
EmploymentWords ==
  { <<"f","u","l","l","-","t","i","m","e">>, <<"f","u","l","l","_","t","i","m","e">>, <<"p","e","r","m","a","n","e","n","t">>, <<"c","d","i">>, <<"t","e","m","p","o","r","a","r","y">>, <<"c","o","n","t","r","a","c","t">>, <<"c","d","d">>,
    <<"i","n","t","e","r","n">>, <<"i","n","t","e","r","n","s","h","i","p">>, <<"s","t","a","g","e">>, <<"f","r","e","e","l","a","n","c","e">>, <<"c","o","n","t","r","a","c","t","o","r">>, <<"p","a","r","t","-","t","i","m","e">>, <<"p","a","r","t","_","t","i","m","e">>,
    <<"p","a","r","t","i","e","l">>, <<"t","e","m","p","s"," ","p","a","r","t","i","e","l">>, <<"a","p","p","r","e","n","t","i">>, <<"a","p","p","r","e","n","t","i","s","s","a","g","e">>, <<"a","l","t","e","r","n","a","n","c","e">>, <<"v","o","l","u","n","t","e","e","r">>,
    <<"p","e","r","_","d","i","e","m">>, <<"s","e","a","s","o","n","a","l">>, <<"o","t","h","e","r">> }

capitals(s) ==
  [i \in 1..Len(s) |->
     IF \E k \in 1..Len(LowerChars) : LowerChars[k] = s[i]
       THEN UpperChars[CHOOSE k \in 1..Len(LowerChars) : LowerChars[k] = s[i]]
       ELSE s[i]]

EmploymentTypes ==
  EmploymentWords \cup {capitals(w) : w \in EmploymentWords} \cup {<<"C","o","n","t","r","a","t"," ">> \o w : w \in EmploymentWords}

InitContractType == IdleCall /\ fnIn \in EmploymentTypes /\ fnOut = Pending

CallNormalizeContractType ==
  /\ fnOut = Pending
  /\ fnOut' = Returned(normalizeContractType(fnIn))
  /\ UNCHANGED <<url, doc, now, pc, idx, pending, calls, ret, prevRet, run, fnIn, registry, store, refreshPromise, isExtracting, requests>>

NextContractType == CallNormalizeContractType

SpecContractType == InitContractType /\ [][NextContractType]_vars

\* the mapping table, row by row, a value with "contractor" belonging to the Freelance row
statedContractType(type) ==
  LET lower == toLowerCase(type) IN
  IF includes(lower, <<"f","u","l","l">>) \/ includes(lower, <<"p","e","r","m","a","n","e","n","t">>) \/ lower = <<"c","d","i">> THEN <<"C","D","I">>
  ELSE IF includes(lower, <<"c","o","n","t","r","a","c","t","o","r">>) THEN <<"F","r","e","e","l","a","n","c","e">>
  ELSE IF includes(lower, <<"t","e","m","p","o","r","a","r","y">>) \/ includes(lower, <<"c","o","n","t","r","a","c","t">>) \/ lower = <<"c","d","d">> THEN <<"C","D","D">>
  ELSE IF includes(lower, <<"i","n","t","e","r","n">>) \/ includes(lower, <<"s","t","a","g","e">>) THEN <<"S","t","a","g","e">>
  ELSE IF includes(lower, <<"f","r","e","e","l","a","n","c","e">>) THEN <<"F","r","e","e","l","a","n","c","e">>
  ELSE IF includes(lower, <<"p","a","r","t","-","t","i","m","e">>) \/ includes(lower, <<"p","a","r","t","i","e","l">>) THEN <<"T","e","m","p","s"," ","p","a","r","t","i","e","l">>
  ELSE IF includes(lower, <<"a","p","p","r","e","n","t","i">>) THEN <<"A","l","t","e","r","n","a","n","c","e">>
  ELSE type

\* C19: the employment type is normalized by the mapping table for every input: full, permanent
\* or the value cdi give "CDI", temporary, contract or the value cdd "CDD", intern or stage
\* "Stage", freelance or contractor "Freelance", part-time or partiel "Temps partiel", apprenti...
\* "Alternance", any other value is returned unchanged; "contractor" gives "Freelance"
C19_ContractTypeTable ==
  fnOut # Pending =>
    /\ fnOut.value = statedContractType(fnIn)
    /\ toLowerCase(fnIn) = <<"c","o","n","t","r","a","c","t","o","r">> => fnOut.value = <<"F","r","e","e","l","a","n","c","e">>

(***************************************************************************)
(* GenericExtractor.extract taken step by step.  calls logs the offer as   *)
(* it is after each step, fnIn holds jsonLdData, ret the result.  The      *)
(* pages give each of title, description, company and location a           *)
(* different value in the JobPosting, in the meta tags and in the HTML.    *)
(***************************************************************************)
GenericLdTitles == { AbsentProp, StrProp(<<"D","a","t","a"," ","E","n","g","i","n","e","e","r"," ","(","L","D",")">>), StrProp(<<" "," ">>) }

GenericLd(t, withDescription, withCompany, withLocation) ==
  [LdObject(<<"J","o","b","P","o","s","t","i","n","g">>, NoGraph) EXCEPT
     !.title = t,
     !.description = IF withDescription THEN LongDescription ELSE @,
     !.orgName = IF withCompany THEN StrProp(<<"A","c","m","e"," ","L","D">>) ELSE @,
     !.address = IF withLocation THEN [k |-> "obj", parts |-> <<<<"L","y","o","n">>, Undefined, <<"F","R">>>>] ELSE @]

GenericScriptSets ==
  { <<>>, <<Script(TRUE, <<JobPostingLd>>)>>, <<Script(TRUE, <<ArrayTypeLd>>)>> }
    \cup { <<Script(TRUE, <<GenericLd(t, d, c, l)>>)>> : t \in GenericLdTitles, d \in BOOLEAN, c \in BOOLEAN, l \in BOOLEAN }

GenericMetas ==
  { [NoMeta EXCEPT !.ogTitle = IF t THEN <<"D","a","t","a"," ","E","n","g","i","n","e","e","r"," ","(","O","G",")">> ELSE @,
                   !.ogDesc = IF d THEN <<"B","u","i","l","d"," ","p","i","p","e","l","i","n","e","s"," ","w","i","t","h"," ","P","y","t","h","o","n",".">> ELSE @,
                   !.ogSiteName = IF c THEN <<"A","c","m","e"," ","O","G">> ELSE @] : t \in BOOLEAN, d \in BOOLEAN, c \in BOOLEAN }

GenericElems(withTitle, description, withCompany, withLocation) ==
  (IF withTitle THEN <<PageElement({"h1"}, <<TextNode(<<"D","a","t","a"," ","E","n","g","i","n","e","e","r"," ","(","H","1",")">>)>>)>> ELSE <<>>)
    \o (IF description # <<>> THEN <<PageElement({"article"}, description)>> ELSE <<>>)
    \o (IF withCompany THEN <<PageElement({"[class*=\"company-name\"]"}, <<TextNode(<<"A","c","m","e"," ","H","T","M","L">>)>>)>> ELSE <<>>)
    \o (IF withLocation THEN <<PageElement({"[class*=\"location\"]"}, <<TextNode(<<"P","a","r","i","s",","," ","F","r","a","n","c","e">>)>>)>> ELSE <<>>)

GenericDocs ==
  { Tree(Page(<<>>, GenericElems(t, d, c, l), m), s, {}) :
      t \in BOOLEAN, d \in {<<>>, MediumDescription, LongDescription}, c \in BOOLEAN, l \in BOOLEAN,
      m \in GenericMetas, s \in GenericScriptSets }

InitGeneric ==
  /\ url = <<"h","t","t","p","s",":","/","/","c","a","r","e","e","r","s",".","a","c","m","e",".","i","o","/","p","o","s","i","t","i","o","n","/","4","2">> /\ doc \in GenericDocs
  /\ now = 0 /\ pc = "start" /\ idx = 0 /\ pending = NoResult
  /\ calls = <<>> /\ ret = NoResult /\ prevRet = NoResult /\ run = 0
  /\ fnIn = NoJsonLd /\ fnOut = Pending /\ registry = Registry /\ IdleExtension

\* const offer = { sourceUrl, sourceDomain, capturedAt }
GenericBegin ==
  /\ pc = "start"
  /\ calls' = <<[EmptyOffer EXCEPT !.sourceUrl = url, !.sourceDomain = getDomain(url), !.capturedAt = now]>>
  /\ pc' = "jsonld"
  /\ UNCHANGED <<url, doc, now, idx, pending, ret, prevRet, run, fnIn, fnOut, registry, store, refreshPromise, isExtracting, requests>>

\* 1. extractJsonLd and applyJsonLdData; a TypeError of applyJsonLdData leaves extract
GenericJsonLdStep ==
  /\ pc = "jsonld"
  /\ fnIn' = extractJsonLd(doc)
  /\ IF fnIn' # NoJsonLd /\ applyJsonLdThrows(fnIn')
       THEN ret' = Thrown /\ pc' = "done" /\ UNCHANGED calls
       ELSE calls' = Append(calls, GenericApplyJsonLd(calls[Len(calls)], fnIn')) /\ pc' = "meta" /\ UNCHANGED ret
  /\ UNCHANGED <<url, doc, now, idx, pending, prevRet, run, fnOut, registry, store, refreshPromise, isExtracting, requests>>

\* 2. extractMetaTags
GenericMetaStep ==
  /\ pc = "meta"
  /\ calls' = Append(calls, extractMetaTags(calls[Len(calls)], doc))
  /\ pc' = "html"
  /\ UNCHANGED <<url, doc, now, idx, pending, ret, prevRet, run, fnIn, fnOut, registry, store, refreshPromise, isExtracting, requests>>

\* 3. the common HTML patterns
GenericHtmlStep ==
  /\ pc = "html"
  /\ calls' = Append(calls, GenericFillFromHtml(calls[Len(calls)], doc))
  /\ pc' = "skills"
  /\ UNCHANGED <<url, doc, now, idx, pending, ret, prevRet, run, fnIn, fnOut, registry, store, refreshPromise, isExtracting, requests>>

\* 4. and 5. the skills and the remote type
GenericSkillsStep ==
  /\ pc = "skills"
  /\ calls' = Append(calls, GenericFillRemoteType(GenericFillSkills(calls[Len(calls)])))
  /\ pc' = "result"
  /\ UNCHANGED <<url, doc, now, idx, pending, ret, prevRet, run, fnIn, fnOut, registry, store, refreshPromise, isExtracting, requests>>

\* the confidence and the return
GenericReturn ==
  /\ pc = "result"
  /\ ret' = GenericResult(calls[Len(calls)], fnIn)
  /\ pc' = "done"
  /\ UNCHANGED <<url, doc, now, idx, pending, calls, prevRet, run, fnIn, fnOut, registry, store, refreshPromise, isExtracting, requests>>

NextGeneric ==
  \/ GenericBegin \/ GenericJsonLdStep \/ GenericMetaStep \/ GenericHtmlStep \/ GenericSkillsStep
  \/ GenericReturn

SpecGeneric == InitGeneric /\ [][NextGeneric]_vars

FilledFields == {"title", "description", "company", "location"}

\* C21: in the generic extractor a step fills only the fields the steps before it left absent
\* (undefined or empty): a title, description, company or location that the JobPosting step set is
\* not changed by the meta-tag step or by the selector step, one that the meta-tag step set is
\* not changed by the selector step, and the offer returned carries the value of the first step
\* that set the field
C21_FillOnlyAbsent ==
  /\ \A i \in 1..Len(calls) : \A j \in i..Len(calls) : \A f \in FilledFields :
       Truthy(calls[i][f]) => calls[j][f] = calls[i][f]
  /\ (pc = "done" /\ ret # Thrown /\ ret.success) =>
       \A i \in 1..Len(calls) : \A f \in FilledFields : Truthy(calls[i][f]) => ret.offer[f] = calls[i][f]

\* the JobPosting, the meta tags and the HTML each name the job, the company and give a
\* description; the offer returned has the three values of the JobPosting
C21_Witness ==
  /\ pc = "done" /\ ret # Thrown /\ ret.success
  /\ fnIn # NoJsonLd /\ doc.meta.ogTitle # Undefined /\ doc.meta.ogDesc # Undefined /\ doc.meta.ogSiteName # Undefined
  /\ Len(doc.elems) = 4
  /\ ret.offer.title = <<"D","a","t","a"," ","E","n","g","i","n","e","e","r"," ","(","L","D",")">> /\ ret.offer.company = <<"A","c","m","e"," ","L","D">>
  /\ ret.offer.location = <<"L","y","o","n",","," ","F","R">> /\ Len(ret.offer.description) > 200

\* C22: when the generic extractor finds a JSON-LD JobPosting and returns a success, the
\* confidence is 0.9, whatever fields the JobPosting supplied, whatever the later steps filled
\* and whatever the weighted sum of the offer is
C22_JsonLdConfidence ==
  (pc = "done" /\ ret # Thrown /\ ret.success /\ fnIn # NoJsonLd) => ret.confidence = 90

\* a JobPosting without a title and without a description: both come from the HTML, the
\* weighted sum of the offer is not 90
C22_Witness ==
  /\ pc = "done" /\ ret # Thrown /\ ret.success /\ fnIn # NoJsonLd
  /\ fnIn.title = AbsentProp /\ fnIn.description = <<>>
  /\ ret.offer.title = <<"D","a","t","a"," ","E","n","g","i","n","e","e","r"," ","(","H","1",")">>
  /\ GenericCalculateConfidence(ret.offer) < 90
  /\ ret.confidence = 90

\* the weighted sum over the populated fields, in hundredths
statedWeightedSum(offer) ==
  (IF Truthy(offer.title) THEN 25 ELSE 0)
  + (IF Truthy(offer.description) /\ Len(offer.description) > 200 THEN 25 ELSE 0)
  + (IF Truthy(offer.company) THEN 15 ELSE 0)
  + (IF Truthy(offer.location) THEN 10 ELSE 0)
  + (IF offer.salary # NoSalary THEN 10 ELSE 0)
  + (IF Len(offer.skills) > 0 THEN 10 ELSE 0)
  + (IF Truthy(offer.contractType) THEN 5 ELSE 0)

\* C25: without a JSON-LD JobPosting a successful generic extraction has the weighted sum over
\* the populated fields as its confidence, between 0.25 and 0.85: the title gives 0.25, and the
\* salary and the contract type, which only a JobPosting populates, are never counted
C25_WeightedSumBounds ==
  (pc = "done" /\ ret # Thrown /\ ret.success /\ fnIn = NoJsonLd) =>
    /\ ret.confidence = statedWeightedSum(ret.offer)
    /\ ret.confidence >= 25 /\ ret.confidence <= 85
    /\ ret.offer.salary = NoSalary /\ ~Truthy(ret.offer.contractType)

\* no JobPosting; title, long description with skills, company and location all found: 0.85
C25_Witness ==
  /\ pc = "done" /\ ret # Thrown /\ ret.success /\ fnIn = NoJsonLd /\ doc.scripts = <<>>
  /\ Len(ret.offer.description) > 200 /\ Len(ret.offer.skills) > 0
  /\ Truthy(ret.offer.company) /\ Truthy(ret.offer.location)
  /\ ret.confidence = 85

(***************************************************************************)
(* calculateConfidence of the three site extractors, called on offers that *)
(* have a title and a description and any of the other fields.             *)
(***************************************************************************)
ConfidenceOffer(description, withCompany, withLocation, withSkills, withSalary, withContractType) ==
  [EmptyOffer EXCEPT
     !.title = <<"D","a","t","a"," ","E","n","g","i","n","e","e","r">>,
     !.description = description,
     !.company = IF withCompany THEN <<"A","c","m","e">> ELSE @,
     !.location = IF withLocation THEN <<"L","y","o","n">> ELSE @,
     !.skills = IF withSkills THEN <<<<"P","y","t","h","o","n">>>> ELSE @,
     !.salary = IF withSalary THEN [min |-> 40000, max |-> 50000, currency |-> <<"E","U","R">>, period |-> "year"] ELSE @,
     !.contractType = IF withContractType THEN <<"C","D","I">> ELSE @]

ConfidenceInputs ==
  { [strategy |-> name, offer |-> ConfidenceOffer(d, c, l, k, s, t)] :
      name \in {LinkedInName, IndeedName, WttjName}, d \in {Filler(200, "a"), Filler(201, "a")},
      c \in BOOLEAN, l \in BOOLEAN, k \in BOOLEAN, s \in BOOLEAN, t \in BOOLEAN }

InitConfidence == IdleCall /\ fnIn \in ConfidenceInputs /\ fnOut = Pending

CallCalculateConfidence ==
  /\ fnOut = Pending
  /\ fnOut' = Returned(CASE fnIn.strategy = LinkedInName -> LinkedInCalculateConfidence(fnIn.offer)
                         [] fnIn.strategy = IndeedName -> IndeedCalculateConfidence(fnIn.offer)
                         [] fnIn.strategy = WttjName -> WttjCalculateConfidence(fnIn.offer))
  /\ UNCHANGED <<url, doc, now, pc, idx, pending, calls, ret, prevRet, run, fnIn, registry, store, refreshPromise, isExtracting, requests>>

NextConfidence == CallCalculateConfidence

SpecConfidence == InitConfidence /\ [][NextConfidence]_vars

\* the base score and the bonuses of a site extractor, in hundredths
statedBase(name) == IF name = WttjName THEN 60 ELSE 50

statedBonus(name) ==
  IF name = WttjName THEN [title |-> 10, company |-> 10, description |-> 10, location |-> 5, skills |-> 5]
  ELSE [title |-> 15, company |-> 10, description |-> 15, location |-> 5, skills |-> 5]

statedConfidence(name, offer) ==
  LET b == statedBonus(name)
      score == statedBase(name)
        + (IF Truthy(offer.title) THEN b.title ELSE 0)
        + (IF Truthy(offer.company) THEN b.company ELSE 0)
        + (IF Truthy(offer.description) /\ Len(offer.description) > 200 THEN b.description ELSE 0)
        + (IF Truthy(offer.location) THEN b.location ELSE 0)
        + (IF Len(offer.skills) > 0 THEN b.skills ELSE 0)
  IN IF score < 100 THEN score ELSE 100

MaxFragments == 3

DetailFragments ==
  { <<"C","D","I">>, <<"S","t","a","g","e"," ","-"," ","I","n","t","e","r","n","s","h","i","p">>, <<"R","e","m","o","t","e">>, <<"T","&#233;","l","&#233;","t","r","a","v","a","i","l"," ","h","y","b","r","i","d","e">>, <<"S","u","r"," ","s","i","t","e",","," ","3"," ","a","n","s">>,
    <<"S","e","n","i","o","r"," ","c","o","n","t","r","a","c","t">>, <<"P","a","r","i","s">> }

RECURSIVE FragmentLists(_)
FragmentLists(n) ==
  IF n = 0 THEN {<<>>}
  ELSE FragmentLists(n - 1) \cup {Append(l, t) : l \in {x \in FragmentLists(n - 1) : Len(x) = n - 1}, t \in DetailFragments}

InitDetails ==
  /\ IdleCall
  /\ fnIn \in {[strategy |-> name, texts |-> l] : name \in {LinkedInName, IndeedName, WttjName}, l \in FragmentLists(MaxFragments)}
  /\ fnOut = Returned(NoDetails)

\* variant: a field that an earlier text has set is kept
firstMatchStep(name, result, text) ==
  LET r == CASE name = LinkedInName -> LinkedInDetailStep(result, text)
             [] name = IndeedName -> IndeedDetailStep(result, text)
             [] name = WttjName -> WttjDetailStep(result, text)
  IN [f \in DOMAIN result |-> IF result[f] # NoDetails[f] THEN result[f] ELSE r[f]]

\* the body of the loop over the collected texts, for the named extractor
detailStep(name, result, text) ==
  CASE name = LinkedInName -> LinkedInDetailStep(result, text)
    [] name = IndeedName -> IndeedDetailStep(result, text)
    [] name = WttjName -> WttjDetailStep(result, text)

ScanFragment ==
  /\ pc = "idle" /\ idx < Len(fnIn.texts)
  /\ idx' = idx + 1
  /\ fnOut' = Returned(detailStep(fnIn.strategy, fnOut.value, fnIn.texts[idx']))
  /\ UNCHANGED <<url, doc, now, pc, pending, calls, ret, prevRet, run, fnIn, registry, store, refreshPromise, isExtracting, requests>>

\* return result
ReturnDetails ==
  /\ pc = "idle" /\ idx = Len(fnIn.texts)
  /\ pc' = "done"
  /\ UNCHANGED <<url, doc, now, idx, pending, calls, ret, prevRet, run, fnIn, fnOut, registry, store, refreshPromise, isExtracting, requests>>

NextDetails == ScanFragment \/ ReturnDetails

SpecDetails == InitDetails /\ [][NextDetails]_vars

DetailFields == {"contractType", "remoteType", "experience"}

\* the value a fragment on its own assigns to a field; the fragment matches a keyword of the
\* field when that value is not the absent one
assigned(name, text, f) == detailStep(name, NoDetails, text)[f]

matchesField(name, text, f) == assigned(name, text, f) # NoDetails[f]

\* C24: the metadata classification of the site extractors is last-match-wins over the scanned
\* fragments: after any number of fragments, each of contractType, remoteType and experience has
\* the value assigned by the last fragment scanned so far that matches a keyword of the field, a
\* fragment that matches none leaves the field as it was, and the field is absent iff no
\* fragment matched
C24_LastMatchWins ==
  \A f \in DetailFields :
    LET hits == {k \in 1..idx : matchesField(fnIn.strategy, fnIn.texts[k], f)}
    IN IF hits = {} THEN fnOut.value[f] = NoDetails[f]
       ELSE fnOut.value[f] = assigned(fnIn.strategy, fnIn.texts[CHOOSE k \in hits : \A h \in hits : h <= k], f)

\* LinkedIn has scanned "CDI", then "Senior contract", then "Paris": the contract type is the
\* one of the second fragment and the third has changed nothing
C24_Witness ==
  /\ pc = "done" /\ fnIn.strategy = LinkedInName
  /\ fnIn.texts = <<<<"C","D","I">>, <<"S","e","n","i","o","r"," ","c","o","n","t","r","a","c","t">>, <<"P","a","r","i","s">>>>
  /\ fnOut.value.contractType = <<"C","D","D">> /\ fnOut.value.experience = <<"S","e","n","i","o","r"," ","(","5","+"," ","a","n","s",")">>
  /\ fnOut.value.remoteType = "undefined"

(***************************************************************************)
(* ApiClient token refresh (lib/api.ts).  Callers run getValidTokens; now  *)
(* is Date.now() in milliseconds; ret[k] holds the tokens caller k read    *)
(* and then what its call resolved to, idx[k] the refresh it awaits.       *)
(* calls lists the promises doRefreshTokens has returned, with the stage   *)
(* each is at.  Code runs to completion between awaits, and the reactions  *)
(* of a promise that settles run before the next task.                     *)
(***************************************************************************)
MaxCallers == 3
MaxExpiries == 1

TOKEN_BUFFER_MS == 60 * 1000
ACCESS_TOKEN_MS == 15 * 60 * 1000

AuthTokens(access, refresh, expiresAt) ==
  [accessToken |-> access, refreshToken |-> refresh, expiresAt |-> expiresAt]

Callers == 1..MaxCallers

InitRefresh ==
  /\ url = <<>> /\ doc = NoDoc /\ now = 0 /\ pending = NoResult /\ prevRet = NoResult /\ run = 0
  /\ fnIn = <<>> /\ fnOut = Pending /\ registry = Registry
  /\ pc = [k \in Callers |-> "idle"] /\ idx = [k \in Callers |-> 0] /\ ret = [k \in Callers |-> NoResult]
  /\ calls = <<>> /\ requests = <<>> /\ refreshPromise = Null /\ isExtracting = FALSE
  /\ \E expiresAt \in {TOKEN_BUFFER_MS, ACCESS_TOKEN_MS} :
       store = [EmptyStore EXCEPT !.authTokens = AuthTokens(0, 0, expiresAt)]

\* variant: the test on this.refreshPromise always fails
neverPending == FALSE

\* if (this.refreshPromise)
refreshPending == refreshPromise # Null

\* tokens.expiresAt > now + bufferMs
stillValid(tokens) == tokens.expiresAt > now + TOKEN_BUFFER_MS

\* getValidTokens: const tokens = await getAuthTokens()
ReadTokens(k) ==
  /\ pc[k] = "idle"
  /\ pc' = [pc EXCEPT ![k] = "read"]
  /\ ret' = [ret EXCEPT ![k] = store.authTokens]
  /\ UNCHANGED <<url, doc, now, idx, pending, calls, prevRet, run, fnIn, fnOut, registry, store, refreshPromise, isExtracting, requests>>

\* getValidTokens returns null, or the tokens when they are valid for more than the buffer
ReturnTokens(k) ==
  /\ pc[k] = "read" /\ (IF ret[k] = Null THEN TRUE ELSE stillValid(ret[k]))
  /\ pc' = [pc EXCEPT ![k] = "done"]
  /\ UNCHANGED <<url, doc, now, idx, pending, calls, ret, prevRet, run, fnIn, fnOut, registry, store, refreshPromise, isExtracting, requests>>

\* refreshTokens while a refresh is pending: return this.refreshPromise
JoinRefresh(k) ==
  /\ pc[k] = "read" /\ ret[k] # Null /\ ~stillValid(ret[k])
  /\ refreshPending
  /\ pc' = [pc EXCEPT ![k] = "joined"]
  /\ idx' = [idx EXCEPT ![k] = refreshPromise.id]
  /\ UNCHANGED <<url, doc, now, pending, calls, ret, prevRet, run, fnIn, fnOut, registry, store, refreshPromise, isExtracting, requests>>

\* refreshTokens otherwise: this.refreshPromise = this.doRefreshTokens(refreshToken), which runs
\* up to await this.getBaseUrl()
StartRefresh(k) ==
  /\ pc[k] = "read" /\ ret[k] # Null /\ ~stillValid(ret[k])
  /\ ~refreshPending
  /\ calls' = Append(calls, [stage |-> "baseUrl", refreshToken |-> ret[k].refreshToken, by |-> k,
                             ok |-> FALSE, value |-> Null])
  /\ refreshPromise' = [id |-> Len(calls) + 1]
  /\ pc' = [pc EXCEPT ![k] = "started"]
  /\ idx' = [idx EXCEPT ![k] = Len(calls) + 1]
  /\ UNCHANGED <<url, doc, now, pending, ret, prevRet, run, fnIn, fnOut, registry, store, isExtracting, requests>>

\* doRefreshTokens: fetch(baseUrl + '/api/auth/token/refresh/', POST { refresh })
SendRefresh(n) ==
  /\ calls[n].stage = "baseUrl"
  /\ calls' = [calls EXCEPT ![n].stage = "fetching"]
  /\ requests' = Append(requests, [endpoint |-> "/api/auth/token/refresh/", refresh |-> calls[n].refreshToken])
  /\ UNCHANGED <<url, doc, now, pc, idx, pending, ret, prevRet, run, fnIn, fnOut, registry, store, refreshPromise, isExtracting>>

\* the response: ok with new tokens (data.refresh ?? refreshToken), not ok, or fetch rejects
RefreshResponds(n) ==
  /\ calls[n].stage = "fetching"
  /\ \E ok \in BOOLEAN, rotated \in BOOLEAN :
       calls' = [calls EXCEPT ![n].stage = "storing", ![n].ok = ok,
                              ![n].value = IF ok THEN AuthTokens(n, IF rotated THEN n ELSE calls[n].refreshToken,
                                                                 now + ACCESS_TOKEN_MS)
                                           ELSE Null]
  /\ UNCHANGED <<url, doc, now, pc, idx, pending, ret, prevRet, run, fnIn, fnOut, registry, store, refreshPromise, isExtracting, requests>>

\* await setAuthTokens(newTokens) or await clearAuth(), then doRefreshTokens returns; the caller
\* that started the refresh resumes after its await and runs finally { this.refreshPromise = null }
SettleRefresh(n) ==
  /\ calls[n].stage = "storing"
  /\ store' = IF calls[n].ok THEN [store EXCEPT !.authTokens = calls[n].value]
              ELSE [store EXCEPT !.authTokens = Null, !.user = Null]
  /\ calls' = [calls EXCEPT ![n].stage = "settled"]
  /\ refreshPromise' = Null
  /\ pc' = [pc EXCEPT ![calls[n].by] = "done"]
  /\ ret' = [ret EXCEPT ![calls[n].by] = calls[n].value]
  /\ UNCHANGED <<url, doc, now, idx, pending, prevRet, run, fnIn, fnOut, registry, isExtracting, requests>>

\* a caller that was handed the pending promise resumes with its result
JoinerResumes(k) ==
  /\ pc[k] = "joined" /\ calls[idx[k]].stage = "settled"
  /\ pc' = [pc EXCEPT ![k] = "done"]
  /\ ret' = [ret EXCEPT ![k] = calls[idx[k]].value]
  /\ UNCHANGED <<url, doc, now, idx, pending, calls, prevRet, run, fnIn, fnOut, registry, store, refreshPromise, isExtracting, requests>>

\* a token lifetime passes
TokensExpire ==
  /\ run < MaxExpiries
  /\ run' = run + 1
  /\ now' = now + ACCESS_TOKEN_MS
  /\ UNCHANGED <<url, doc, pc, idx, pending, calls, ret, prevRet, fnIn, fnOut, registry, store, refreshPromise, isExtracting, requests>>

NextRefresh ==
  \/ \E k \in Callers : ReadTokens(k)
  \/ \E k \in Callers : ReturnTokens(k)
  \/ \E k \in Callers : JoinRefresh(k)
  \/ \E k \in Callers : StartRefresh(k)
  \/ \E n \in 1..Len(calls) : SendRefresh(n)
  \/ \E n \in 1..Len(calls) : RefreshResponds(n)
  \/ \E n \in 1..Len(calls) : SettleRefresh(n)
  \/ \E k \in Callers : JoinerResumes(k)
  \/ TokensExpire

SpecRefresh == InitRefresh /\ [][NextRefresh]_vars

\* the refreshes that have not settled, and the refresh requests without a response yet
PendingRefreshes == {n \in 1..Len(calls) : calls[n].stage # "settled"}
RequestsInFlight == {n \in 1..Len(calls) : calls[n].stage = "fetching"}

OneRefreshAtATime ==
  /\ Cardinality(PendingRefreshes) <= 1 /\ Cardinality(RequestsInFlight) <= 1
  /\ Len(requests) <= Len(calls)
  /\ (refreshPromise # Null) <=> (PendingRefreshes # {})
  /\ refreshPromise # Null => PendingRefreshes = {refreshPromise.id}
  /\ \A k \in Callers : pc[k] = "joined" => calls[idx[k]].by # k
  /\ \A k \in Callers : (pc[k] = "done" /\ idx[k] # 0) => ret[k] = calls[idx[k]].value

\* what a call of refreshTokens does: it joins the pending refresh and starts nothing, or, when
\* none is pending, starts a new one
JoinsOrStarts(k) ==
  (pc[k] = "read" /\ pc'[k] # "read" /\ ret[k] # Null /\ ~stillValid(ret[k])) =>
    IF PendingRefreshes # {}
      THEN /\ calls' = calls /\ requests' = requests /\ pc'[k] = "joined"
           /\ idx'[k] \in PendingRefreshes
      ELSE /\ Len(calls') = Len(calls) + 1 /\ pc'[k] = "started" /\ idx'[k] = Len(calls')
           /\ calls'[idx'[k]].stage # "settled"

\* C26: at most one token refresh request is in flight at any time: a call of refreshTokens made
\* while a refresh is pending starts no second request and resolves to the result of the pending
\* refresh, refreshPromise is non-null exactly while a refresh is pending, and once the refresh
\* has settled, with tokens or with null, the next call starts a new request
C26_SingleRefresh ==
  /\ []OneRefreshAtATime
  /\ [][\A k \in Callers : JoinsOrStarts(k)]_vars

\* caller 1 started a refresh, caller 2 joined it and both got its tokens; after the tokens
\* expired again caller 3 started a second refresh, whose request has been sent
C26_Witness ==
  /\ Len(calls) = 2 /\ Len(requests) = 2
  /\ calls[1].by = 1 /\ idx[2] = 1 /\ pc[1] = "done" /\ pc[2] = "done"
  /\ ret[1] = ret[2] /\ ret[1] # Null /\ ret[1].accessToken = 1
  /\ calls[2].by = 3 /\ calls[2].stage = "fetching" /\ refreshPromise = [id |-> 2]

\* ---------------------------------------------------------------------------------------------
\* Captured offers (storage.ts): addCapturedOffer and removeCapturedOffer, each a read of the stored
\* list followed by a write of the list computed from what was read. Two calls may be in progress
\* at once and interleave between the read and the write.
\* ---------------------------------------------------------------------------------------------

\* [offer, ...offers].slice(0, 100)
MAX_LOCAL_OFFERS == 100

\* source urls are numbered in the order in which they are first captured
MaxUrls == 102

\* calls other than the capture of a new url with no other call in progress
MaxMixedCalls == 2

Tasks == 1..2

CapturedOffer(sourceUrl, capturedAt) == [sourceUrl |-> sourceUrl, capturedAt |-> capturedAt]

InitOffers ==
  /\ url = <<>> /\ doc = NoDoc /\ now = 0 /\ pending = NoResult /\ prevRet = NoResult
  /\ calls = <<>> /\ fnOut = Pending /\ registry = Registry /\ IdleExtension
  /\ pc = [k \in Tasks |-> "idle"] /\ fnIn = [k \in Tasks |-> Null] /\ ret = [k \in Tasks |-> <<>>]
  /\ idx = 0 /\ run = 0

\* offers.some((o) => o.sourceUrl === sourceUrl)
exists(offers, sourceUrl) == \E i \in 1..Len(offers) : offers[i].sourceUrl = sourceUrl

\* Array.prototype.slice(0, n)
sliceFromStart(offers, n) == SubSeq(offers, 1, IF Len(offers) < n THEN Len(offers) ELSE n)

\* variant: the new offer is put in front whether or not its url is stored
prependedOffers(offers, offer) == sliceFromStart(<<offer>> \o offers, MAX_LOCAL_OFFERS)

\* addCapturedOffer: the list written, from the list read
updatedWith(offers, offer) ==
  IF exists(offers, offer.sourceUrl)
  THEN [i \in 1..Len(offers) |-> IF offers[i].sourceUrl = offer.sourceUrl THEN offer ELSE offers[i]]
  ELSE sliceFromStart(<<offer>> \o offers, MAX_LOCAL_OFFERS)

\* removeCapturedOffer: offers.filter((o) => o.sourceUrl !== sourceUrl)
updatedWithout(offers, sourceUrl) == SelectSeq(offers, LAMBDA o : o.sourceUrl # sourceUrl)

otherTask(k) == 3 - k

overlaps(k) == pc[otherTask(k)] # "idle"

\* mixed calls are explored while the list is nearly empty or nearly full
nearEdge ==
  \/ Len(store.capturedOffers) < MaxMixedCalls
  \/ Len(store.capturedOffers) + MaxMixedCalls > MAX_LOCAL_OFFERS

\* urls a mixed call is made with: the newest and the oldest stored one, the first one ever
\* captured, and the one of the call in progress
knownUrls(k) ==
  {store.capturedOffers[i].sourceUrl : i \in {1, Len(store.capturedOffers)} \cap 1..Len(store.capturedOffers)}
    \cup (IF idx > 0 THEN {1} ELSE {})
    \cup (IF overlaps(k) THEN {fnIn[otherTask(k)].offer.sourceUrl} ELSE {})

\* const offers = await getCapturedOffers()
ReadOffers(k, call, mixed) ==
  /\ pc[k] = "idle"
  /\ pc' = [pc EXCEPT ![k] = "read"]
  /\ fnIn' = [fnIn EXCEPT ![k] = call]
  /\ ret' = [ret EXCEPT ![k] = store.capturedOffers]
  /\ run' = IF mixed THEN run + 1 ELSE run
  /\ idx' = IF call.offer.sourceUrl > idx THEN call.offer.sourceUrl ELSE idx
  /\ UNCHANGED <<url, doc, now, pending, calls, prevRet, fnOut, registry, store, refreshPromise, isExtracting, requests>>

\* addCapturedOffer(offer) is called with a url never captured before and no other call in progress
CaptureNew(k) ==
  /\ ~overlaps(k) /\ idx < MaxUrls
  /\ ReadOffers(k, [op |-> "add", offer |-> CapturedOffer(idx + 1, 0)], FALSE)

\* addCapturedOffer(offer) is called with a url captured before, or while another call is in progress
CaptureAgain(k) ==
  /\ run < MaxMixedCalls /\ nearEdge
  /\ \E sourceUrl \in knownUrls(k) \cup (IF overlaps(k) /\ idx < MaxUrls THEN {idx + 1} ELSE {}),
        capturedAt \in {0, 1} :
       ReadOffers(k, [op |-> "add", offer |-> CapturedOffer(sourceUrl, capturedAt)], TRUE)

\* removeCapturedOffer(sourceUrl) is called
RemoveReads(k) ==
  /\ run < MaxMixedCalls /\ nearEdge
  /\ \E sourceUrl \in knownUrls(k) :
       ReadOffers(k, [op |-> "remove", offer |-> CapturedOffer(sourceUrl, 0)], TRUE)

\* await set(STORAGE_KEYS.CAPTURED_OFFERS, updated)
WriteOffers(k) ==
  /\ pc[k] = "read"
  /\ store' = [store EXCEPT !.capturedOffers =
                 IF fnIn[k].op = "add" THEN updatedWith(ret[k], fnIn[k].offer)
                 ELSE updatedWithout(ret[k], fnIn[k].offer.sourceUrl)]
  /\ pc' = [pc EXCEPT ![k] = "idle"]
  /\ fnIn' = [fnIn EXCEPT ![k] = Null]
  /\ ret' = [ret EXCEPT ![k] = <<>>]
  /\ UNCHANGED <<url, doc, now, idx, pending, calls, prevRet, run, fnOut, registry, refreshPromise, isExtracting, requests>>

NextOffers ==
  \/ \E k \in Tasks : CaptureNew(k)
  \/ \E k \in Tasks : CaptureAgain(k)
  \/ \E k \in Tasks : RemoveReads(k)
  \/ \E k \in Tasks : WriteOffers(k)

SpecOffers == InitOffers /\ [][NextOffers]_vars

uniqueUrls(offers) == Cardinality({offers[i].sourceUrl : i \in 1..Len(offers)}) = Len(offers)

BoundedUnique ==
  /\ Len(store.capturedOffers) <= MAX_LOCAL_OFFERS
  /\ uniqueUrls(store.capturedOffers)

\* the write of an addCapturedOffer call that read a list holding its url
ReplacesInPlace(k) ==
  (/\ pc[k] = "read" /\ pc'[k] = "idle"
   /\ fnIn[k].op = "add"
   /\ exists(ret[k], fnIn[k].offer.sourceUrl))
  => /\ Len(store'.capturedOffers) = Len(ret[k])
     /\ \A i \in 1..Len(ret[k]) :
          store'.capturedOffers[i] =
            IF ret[k][i].sourceUrl = fnIn[k].offer.sourceUrl THEN fnIn[k].offer ELSE ret[k][i]
     /\ (store.capturedOffers = ret[k] => Len(store'.capturedOffers) = Len(store.capturedOffers))

MaxTriggers == 4

Flows == 1..MaxTriggers

Triggers == {"click", "EXTRACT_AND_IMPORT"}

\* outcomes of await extractJobOffer(window.location.href, document)
ExtractionOutcomes ==
  {[success |-> TRUE, offer |-> CapturedOffer(1, 0)], [success |-> TRUE, offer |-> Null], [success |-> FALSE, offer |-> Null]}

InitContent ==
  /\ url = <<>> /\ doc = NoDoc /\ now = 0 /\ prevRet = NoResult /\ idx = 0
  /\ fnIn = <<>> /\ fnOut = Pending /\ registry = Registry /\ IdleExtension
  /\ pc = [f \in Flows |-> "unstarted"] /\ ret = [f \in Flows |-> Null]
  /\ calls = <<>> /\ run = 0 /\ pending = 0

\* variant: the guard on isExtracting never holds
neverExtracting == FALSE

\* if (isExtracting) return
alreadyExtracting == isExtracting

\* handleFloatingButtonClick runs up to await extractJobOffer(...), or returns at once
Trigger(trigger) ==
  /\ Len(calls) < MaxTriggers
  /\ IF alreadyExtracting
     THEN /\ calls' = Append(calls, [trigger |-> trigger, started |-> FALSE])
          /\ UNCHANGED <<pc, run, isExtracting>>
     ELSE /\ calls' = Append(calls, [trigger |-> trigger, started |-> TRUE])
          /\ isExtracting' = TRUE
          /\ run' = run + 1
          /\ pc' = [pc EXCEPT ![run + 1] = "extracting"]
  /\ UNCHANGED <<url, doc, now, idx, pending, ret, prevRet, fnIn, fnOut, registry, store, refreshPromise, requests>>

\* button.addEventListener('click', handleFloatingButtonClick)
Click == Trigger("click")

\* onMessage: message.type === 'EXTRACT_AND_IMPORT'
ExtractAndImportMessage == Trigger("EXTRACT_AND_IMPORT")

\* onMessage: message.type === 'EXTRACT_JOB_OFFER' extracts without reading isExtracting
ExtractJobOfferMessage ==
  /\ pending = 0
  /\ pending' = 1
  /\ UNCHANGED <<url, doc, now, pc, idx, calls, ret, prevRet, run, fnIn, fnOut, registry, store, refreshPromise, isExtracting, requests>>

\* .then((result) => sendResponse(...)) / .catch(...)
ExtractJobOfferResponds ==
  /\ pending = 1
  /\ pending' = 0
  /\ UNCHANGED <<url, doc, now, pc, idx, calls, ret, prevRet, run, fnIn, fnOut, registry, store, refreshPromise, isExtracting, requests>>

\* the extraction failed: notification, return, finally
ExtractionFails(f) ==
  /\ pc[f] = "extracting"
  /\ \E result \in ExtractionOutcomes :
       /\ ~result.success \/ result.offer = Null
       /\ ret' = [ret EXCEPT ![f] = result]
  /\ pc' = [pc EXCEPT ![f] = "ended"]
  /\ isExtracting' = FALSE
  /\ UNCHANGED <<url, doc, now, idx, pending, calls, prevRet, run, fnIn, fnOut, registry, store, refreshPromise, requests>>

\* the extraction succeeded: sendMessage({ type: 'IMPORT_OFFER', payload: { offer } })
SendImportOffer(f) ==
  /\ pc[f] = "extracting"
  /\ \E result \in ExtractionOutcomes :
       /\ result.success /\ result.offer # Null
       /\ ret' = [ret EXCEPT ![f] = result]
       /\ requests' = Append(requests, [type |-> "IMPORT_OFFER", offer |-> result.offer, flow |-> f])
  /\ pc' = [pc EXCEPT ![f] = "importing"]
  /\ UNCHANGED <<url, doc, now, idx, pending, calls, prevRet, run, fnIn, fnOut, registry, store, refreshPromise, isExtracting>>

\* the response of the background script, success or not: notification, finally
ImportResponds(f) ==
  /\ pc[f] = "importing"
  /\ \E success \in BOOLEAN : ret' = [ret EXCEPT ![f] = [success |-> success, offer |-> ret[f].offer]]
  /\ pc' = [pc EXCEPT ![f] = "ended"]
  /\ isExtracting' = FALSE
  /\ UNCHANGED <<url, doc, now, idx, pending, calls, prevRet, run, fnIn, fnOut, registry, store, refreshPromise, requests>>

\* extractJobOffer or sendMessage throws: catch, finally
FlowThrows(f) ==
  /\ pc[f] \in {"extracting", "importing"}
  /\ ret' = [ret EXCEPT ![f] = Thrown]
  /\ pc' = [pc EXCEPT ![f] = "ended"]
  /\ isExtracting' = FALSE
  /\ UNCHANGED <<url, doc, now, idx, pending, calls, prevRet, run, fnIn, fnOut, registry, store, refreshPromise, requests>>

NextContent ==
  \/ Click
  \/ ExtractAndImportMessage
  \/ ExtractJobOfferMessage
  \/ ExtractJobOfferResponds
  \/ \E f \in Flows : ExtractionFails(f)
  \/ \E f \in Flows : SendImportOffer(f)
  \/ \E f \in Flows : ImportResponds(f)
  \/ \E f \in Flows : FlowThrows(f)

SpecContent == InitContent /\ [][NextContent]_vars

FlowsInProgress == {f \in Flows : pc[f] \in {"extracting", "importing"}}

OneFlowAtATime ==
  /\ Cardinality(FlowsInProgress) <= 1
  /\ isExtracting <=> FlowsInProgress # {}
  /\ Len(requests) <= run

\* a click or an EXTRACT_AND_IMPORT message received while isExtracting is true
IgnoredWhileExtracting ==
  (isExtracting /\ Len(calls') > Len(calls))
  => /\ pc' = pc /\ run' = run /\ requests' = requests /\ isExtracting'
     /\ ~calls'[Len(calls')].started

\* C28: at most one extract-and-import flow is in progress at a time; a click or an
\* EXTRACT_AND_IMPORT message received while isExtracting is true starts no extraction and sends
\* no IMPORT_OFFER; isExtracting is true exactly while a started flow has not ended, whether the
\* flow ended by a failed extraction, an import response or an exception.
C28_SingleFlow ==
  /\ []OneFlowAtATime
  /\ [][IgnoredWhileExtracting]_vars

\* the first flow sent IMPORT_OFFER and ended, a message received meanwhile was ignored, a second
\* flow threw, a third one is extracting while a click is ignored
C28_Witness ==
  /\ Len(calls) = MaxTriggers
  /\ calls[1].started /\ calls[2] = [trigger |-> "EXTRACT_AND_IMPORT", started |-> FALSE]
  /\ calls[4] = [trigger |-> "click", started |-> FALSE]
  /\ pc[1] = "ended" /\ Len(requests) = 1 /\ requests[1].flow = 1
  /\ pc[2] = "extracting" /\ isExtracting

\* ---------------------------------------------------------------------------------------------
\* Background script (config.ts): handleImportOffer, the handler of an IMPORT_OFFER message.
\* fnIn is the offer of the message, ret the tokens isAuthenticated read and idx the time at
\* which it read them, fnOut the handler's answer.
\* ---------------------------------------------------------------------------------------------

\* const isExpired = tokens.expiresAt < now + 30000
AUTH_BUFFER_MS == 30000

\* lists of captured offers a browser profile holds before the message arrives
StoredLists ==
  {<<>>, <<CapturedOffer(1, 0)>>, <<CapturedOffer(2, 0), CapturedOffer(1, 0)>>}

InitImport ==
  /\ url = <<>> /\ doc = NoDoc /\ now = 0 /\ pending = NoResult /\ prevRet = NoResult
  /\ calls = <<>> /\ registry = Registry /\ refreshPromise = Null /\ isExtracting = FALSE
  /\ requests = <<>> /\ pc = "idle" /\ idx = 0 /\ run = 0 /\ ret = Null /\ fnOut = Pending
  /\ fnIn \in {CapturedOffer(1, 1), CapturedOffer(3, 1)}
  /\ \E tokens \in {Null} \cup {AuthTokens(0, 0, expiresAt) :
                      expiresAt \in {AUTH_BUFFER_MS - 1, AUTH_BUFFER_MS, AUTH_BUFFER_MS + TOKEN_BUFFER_MS,
                                     ACCESS_TOKEN_MS}},
        offers \in StoredLists :
       store = [EmptyStore EXCEPT !.authTokens = tokens, !.capturedOffers = offers]

\* variant: every caller is taken as authenticated
alwaysAuthenticated(tokens, at) == TRUE

\* storage.ts isAuthenticated, on the tokens read and the time of the reading
isAuthenticated(tokens, at) ==
  IF tokens = Null THEN FALSE ELSE ~(tokens.expiresAt < at + AUTH_BUFFER_MS)

\* the message arrives: handleImportOffer runs up to await isAuthenticated()
ReceiveImportOffer ==
  /\ pc = "idle"
  /\ pc' = "checking"
  /\ UNCHANGED <<url, doc, now, idx, pending, calls, ret, prevRet, run, fnIn, fnOut, registry, store, refreshPromise, isExtracting, requests>>

\* if (!authenticated) return { success: false, error: 'Non authentifié...' }
CheckAuthentication ==
  /\ pc = "checking"
  /\ ret' = store.authTokens /\ idx' = now
  /\ IF isAuthenticated(store.authTokens, now)
     THEN pc' = "saving" /\ UNCHANGED fnOut
     ELSE pc' = "done" /\ fnOut' = Returned([success |-> FALSE, error |-> "Non authentifié"])
  /\ UNCHANGED <<url, doc, now, pending, calls, prevRet, run, fnIn, registry, store, refreshPromise, isExtracting, requests>>

\* await addCapturedOffer(fullOffer)
SaveLocally ==
  /\ pc = "saving"
  /\ store' = [store EXCEPT !.capturedOffers = updatedWith(store.capturedOffers, fnIn)]
  /\ pc' = "headers"
  /\ UNCHANGED <<url, doc, now, idx, pending, calls, ret, prevRet, run, fnIn, fnOut, registry, refreshPromise, isExtracting, requests>>

\* api.importOffer: getHeaders finds no tokens or valid ones, then fetch('/api/offers/import/')
SendImport ==
  /\ pc = "headers"
  /\ IF store.authTokens = Null THEN TRUE ELSE stillValid(store.authTokens)
  /\ requests' = Append(requests, [endpoint |-> "/api/offers/import/", offer |-> fnIn,
                                   authorized |-> store.authTokens # Null])
  /\ pc' = "importing"
  /\ UNCHANGED <<url, doc, now, idx, pending, calls, ret, prevRet, run, fnIn, fnOut, registry, store, refreshPromise, isExtracting>>

\* api.request: getHeaders finds tokens about to expire and refreshes them first
RefreshForRequest ==
  /\ pc = "headers"
  /\ IF store.authTokens = Null THEN FALSE ELSE ~stillValid(store.authTokens)
  /\ requests' = Append(requests, [endpoint |-> "/api/auth/token/refresh/", refresh |-> store.authTokens.refreshToken])
  /\ \E ok \in BOOLEAN :
       store' = IF ok THEN [store EXCEPT !.authTokens = AuthTokens(1, 0, now + ACCESS_TOKEN_MS)]
                ELSE [store EXCEPT !.authTokens = Null, !.user = Null]
  /\ UNCHANGED <<url, doc, now, pc, idx, pending, calls, ret, prevRet, run, fnIn, fnOut, registry, refreshPromise, isExtracting>>

\* the answer of the backend: if (!result.success) return { success: false, ... }
ImportAnswered ==
  /\ pc = "importing"
  /\ \E success \in BOOLEAN :
       fnOut' = Returned(IF success THEN [success |-> TRUE, error |-> ""]
                         ELSE [success |-> FALSE, error |-> "Erreur lors de l'import"])
  /\ pc' = "done"
  /\ UNCHANGED <<url, doc, now, idx, pending, calls, ret, prevRet, run, fnIn, registry, store, refreshPromise, isExtracting, requests>>

\* half a minute passes
ClockAdvances ==
  /\ run < MaxExpiries
  /\ run' = run + 1
  /\ now' = now + AUTH_BUFFER_MS
  /\ UNCHANGED <<url, doc, pc, idx, pending, calls, ret, prevRet, fnIn, fnOut, registry, store, refreshPromise, isExtracting, requests>>

NextImport ==
  \/ ReceiveImportOffer
  \/ CheckAuthentication
  \/ SaveLocally
  \/ SendImport
  \/ RefreshForRequest
  \/ ImportAnswered
  \/ ClockAdvances

SpecImport == InitImport /\ [][NextImport]_vars

\* the check of the handler found no tokens, or tokens expiring within 30 seconds
foundUnauthenticated ==
  /\ pc \notin {"idle", "checking"}
  /\ (IF ret = Null THEN TRUE ELSE ret.expiresAt < idx + AUTH_BUFFER_MS)

RefusedWhenUnauthenticated ==
  foundUnauthenticated
  => /\ pc = "done" /\ fnOut # Pending /\ ~fnOut.value.success
     /\ requests = <<>>

ListKeptWhenUnauthenticated ==
  (foundUnauthenticated \/ foundUnauthenticated')
  => store'.capturedOffers = store.capturedOffers

\* C29: an IMPORT_OFFER message handled while isAuthenticated() is false (no stored tokens, or
\* tokens that expire within 30 seconds of the check) is answered with success = false, leaves
\* the captured-offers list as it was and sends no import request.
C29_UnauthenticatedImport ==
  /\ []RefusedWhenUnauthenticated
  /\ [][ListKeptWhenUnauthenticated]_vars

\* tokens that were valid when the message arrived expired before the check: the handler answered
\* with a failure, the stored list is the one of the start and nothing was sent
C29_Witness ==
  /\ pc = "done" /\ ret # Null /\ ret.expiresAt = AUTH_BUFFER_MS /\ idx = AUTH_BUFFER_MS
  /\ fnOut = Returned([success |-> FALSE, error |-> "Non authentifié"])
  /\ store.capturedOffers = <<CapturedOffer(2, 0), CapturedOffer(1, 0)>>
  /\ fnIn = CapturedOffer(1, 1)
  /\ requests = <<>>

\* ---------------------------------------------------------------------------------------------
\* Background script (config.ts): handleLogin and api.login (api.ts), from a store without tokens.
\* fnIn is the payload of the LOGIN message, fnOut the handler's answer.
\* ---------------------------------------------------------------------------------------------

Emails == {<<>>, <<"a">>, <<"b">>}

Passwords == {<<>>, <<"x">>, <<"y">>}

InitLogin ==
  /\ url = <<>> /\ doc = NoDoc /\ now = 0 /\ pending = NoResult /\ prevRet = NoResult
  /\ calls = <<>> /\ registry = Registry /\ IdleExtension
  /\ pc = "idle" /\ idx = 0 /\ run = 0 /\ ret = Null /\ fnOut = Pending
  /\ fnIn \in [email : Emails, password : Passwords]

Failure(code) == Returned([success |-> FALSE, error |-> code])

\* handleLogin: if (!email || !password) return failure
RejectEmptyCredentials ==
  /\ pc = "idle" /\ (fnIn.email = <<>> \/ fnIn.password = <<>>)
  /\ fnOut' = Failure("Email et mot de passe requis")
  /\ pc' = "done"
  /\ UNCHANGED <<url, doc, now, idx, pending, calls, ret, prevRet, run, fnIn, registry, store, refreshPromise, isExtracting, requests>>

\* api.login: fetch(baseUrl + '/api/auth/token/', POST { email, password })
RequestTokens ==
  /\ pc = "idle" /\ fnIn.email # <<>> /\ fnIn.password # <<>>
  /\ requests' = Append(requests, [endpoint |-> "/api/auth/token/", email |-> fnIn.email])
  /\ pc' = "token"
  /\ UNCHANGED <<url, doc, now, idx, pending, calls, ret, prevRet, run, fnIn, fnOut, registry, store, refreshPromise, isExtracting>>

\* the credentials are rejected: if (!response.ok) return failure
TokensRefused ==
  /\ pc = "token"
  /\ fnOut' = Failure("HTTP_401")
  /\ pc' = "done"
  /\ UNCHANGED <<url, doc, now, idx, pending, calls, ret, prevRet, run, fnIn, registry, store, refreshPromise, isExtracting, requests>>

\* fetch or response.json() throws: catch returns NETWORK_ERROR
LoginThrows ==
  /\ pc = "token"
  /\ fnOut' = Failure("NETWORK_ERROR")
  /\ pc' = "done"
  /\ UNCHANGED <<url, doc, now, idx, pending, calls, ret, prevRet, run, fnIn, registry, store, refreshPromise, isExtracting, requests>>

\* await setAuthTokens(tokens)
withAuthTokens(tokens) == [store EXCEPT !.authTokens = tokens]

\* the tokens are issued: they are stored with expiresAt = Date.now() + 15 min, then getUser()
TokensIssued ==
  /\ pc = "token"
  /\ ret' = AuthTokens(1, 1, now + ACCESS_TOKEN_MS)
  /\ store' = withAuthTokens(AuthTokens(1, 1, now + ACCESS_TOKEN_MS))
  /\ pc' = "headers"
  /\ UNCHANGED <<url, doc, now, idx, pending, calls, prevRet, run, fnIn, fnOut, registry, refreshPromise, isExtracting, requests>>

\* getUser: request('/api/auth/user/') with the headers of the tokens found, if any
RequestUser ==
  /\ pc = "headers"
  /\ IF store.authTokens = Null THEN TRUE ELSE stillValid(store.authTokens)
  /\ requests' = Append(requests, [endpoint |-> "/api/auth/user/", authorized |-> store.authTokens # Null])
  /\ pc' = "user"
  /\ UNCHANGED <<url, doc, now, idx, pending, calls, ret, prevRet, run, fnIn, fnOut, registry, store, refreshPromise, isExtracting>>

\* the user is returned: login succeeds, handleLogin stores the user
UserFetched ==
  /\ pc = "user"
  /\ store' = [store EXCEPT !.user = [email |-> fnIn.email]]
  /\ fnOut' = Returned([success |-> TRUE, error |-> ""])
  /\ pc' = "done"
  /\ UNCHANGED <<url, doc, now, idx, pending, calls, ret, prevRet, run, fnIn, registry, refreshPromise, isExtracting, requests>>

\* request answers with a failure (not ok, or a network error): login returns USER_FETCH_FAILED
UserFetchFails ==
  /\ pc = "user"
  /\ fnOut' = Failure("USER_FETCH_FAILED")
  /\ pc' = "done"
  /\ UNCHANGED <<url, doc, now, idx, pending, calls, ret, prevRet, run, fnIn, registry, store, refreshPromise, isExtracting, requests>>

NextLogin ==
  \/ RejectEmptyCredentials
  \/ RequestTokens
  \/ TokensRefused
  \/ LoginThrows
  \/ TokensIssued
  \/ RequestUser
  \/ RefreshForRequest
  \/ UserFetched
  \/ UserFetchFails
  \/ ClockAdvances
  \/ TokensExpire

SpecLogin == InitLogin /\ [][NextLogin]_vars

loginFailed == pc = "done" /\ ~fnOut.value.success

\* C30 (as stated): whenever the LOGIN handler, started with no stored tokens, returns
\* success = false (credentials rejected, network failure, or failure of the user-info fetch that
\* follows the issue of the tokens), no auth tokens are stored and isAuthenticated() is false.
C30_FailedLoginLoggedOut ==
  loginFailed => (store.authTokens = Null /\ ~isAuthenticated(store.authTokens, now))

\* what the code guarantees: a login that failed before the tokens were issued stores nothing
C30_NoTokensUnlessIssued ==
  (loginFailed /\ ret = Null) => (store.authTokens = Null /\ ~isAuthenticated(store.authTokens, now))

====
